---------------------------- MODULE Spec2Model ----------------------------
(***************************************************************************)
(* Model of service-f's telemetry export pipeline (pure C, gRPC core).     *)
(*                                                                         *)
(* Part 1: the span exporter (otlp_exporter.c) and the log exporter        *)
(* (otlp_log_exporter.c).  The two files are line-for-line the same state  *)
(* machine (pending array, pending_count, mutex, running flag, background  *)
(* export thread, enqueue, flush, destroy); they differ in the record type *)
(* and in the completion tag (100 / 200).  The variable "created" says     *)
(* which exporter main() managed to create.                                *)
(*                                                                         *)
(* Part 2: the metrics accumulator of main.c (g_request_count,             *)
(* g_total_duration_ms, g_metrics_mutex) with record_request_metrics and   *)
(* the periodic metrics_export_thread.                                     *)
(*                                                                         *)
(* main() creates each exporter independently and any creation may fail    *)
(* (main.c:581-603); the exporters share no state with each other, so each *)
(* behaviour follows one created exporter.                                 *)
(***************************************************************************)
EXTENDS Integers, Sequences, FiniteSets, TLC

\* ---------------------------------------------------------------- constants
\* #define MAX_BATCH_SIZE 64
MAX_BATCH_SIZE == 64

\* A slot of pending_spans[] / pending_records[] that holds no item.
NULL == 0

\* Completion tags passed to grpc_call_start_batch by the three exporters.
SPAN_TAG == 100
LOG_TAG == 200
METRICS_TAG == 300

\* Tags of the serving thread's per-call batches: receive message, send
\* response, send UNIMPLEMENTED status.
RECV_TAG == 1
SEND_TAG == 2
UNIMPL_TAG == 3

\* span_kind_t and span_status_code_t (otlp_exporter.h).
SPAN_KIND_SERVER == 2
SPAN_STATUS_OK == 1
SPAN_STATUS_ERROR == 2

\* ------------------------------------------------------------------- bounds
(* Operations explored per behaviour of an exporter: enqueue calls made   *)
(* after the initial burst, explicit flush() calls made before destroy(),  *)
(* and export waits that end by the 5-second deadline, taken together.     *)
MaxOps == 3
\* Requests recorded by record_request_metrics.
MaxReq == 2
\* Ticks of the metrics thread.
MaxTick == 2

\* Inbound calls delivered to the server.
MaxCalls == 3

\* Sizes of the initial enqueue burst (see Init).
PrefillCounts == {0, MAX_BATCH_SIZE - 1}

\* Durations (ms) a request may report.
Durations == {3, 8}

Producers == {"p1"}
DrainThreads == {"bg", "main"}
\* "met" is metrics_export_thread, "req" the thread serving requests.
Threads == DrainThreads \cup Producers \cup {"met", "req"}
NoOwner == "none"

VARIABLES
    created,        \* which exporter exists: "span", "log" or "metrics"
    running,        \* exporter->running
    pending,        \* exporter->pending_spans[] / pending_records[]
    pending_count,  \* exporter->pending_count
    mutex,          \* owner of exporter->mutex, or NoOwner
    overflow,       \* a write to pending[] used an index >= MAX_BATCH_SIZE
    pc,             \* control point of each thread
    item,           \* the caller's span/record of each producer's enqueue call
    batch,          \* local batch[] of a draining thread (a sequence)
    batch_count,    \* local batch_count of a draining thread
    idx,            \* loop index i of a draining thread's copy loop
    call,           \* the grpc_call of a thread's do_export (0: none)
    nextCall,       \* calls created so far
    inflight,       \* calls whose batch is started and not yet completed
    cq,             \* events on exporter->cq, oldest first
    outcome,        \* what a thread's last export call ended with
    written,        \* the call's batch has written the thread's status locals
    ret,            \* <<v>>: the value a thread's last API call returned; <<>>: none yet
    inDestroy,      \* main is inside otlp_exporter_destroy
    destroySteps,   \* the steps destroy() has performed, in order
    nextItem,       \* items handed to enqueue so far, plus one
    enqCalls,       \* enqueue calls made after the initial burst
    flushes,        \* flush() calls made so far
    accepted,       \* items whose enqueue returned 0, in append order
    rejected,       \* items whose enqueue returned -1
    handed,         \* batches handed to do_export, in order
    drainSnap,      \* the pending items a draining thread found when it took the lock
    flushHanded,    \* batches handed to do_export by the current flush()
    bgDrainsAfterJoin, \* drains begun by the background thread after the join
    timedOut,       \* indices in "handed" of the batches whose export timed out
    cur,            \* index in "handed" of a thread's current batch
    g_request_count,     \* main.c metrics accumulator
    g_total_duration_ms, \* main.c metrics accumulator
    g_metrics_mutex,     \* owner of g_metrics_mutex, or NoOwner
    g_shutdown,          \* main.c shutdown flag
    snap,                \* the metrics thread's locals request_count/total_duration
    recorded,            \* requests recorded so far
    ticks,               \* metrics ticks so far
    emitted,             \* metric exports issued by the metrics thread
    spc,                 \* control point of the serving thread (run_server)
    request_counter,     \* request_call's static request_counter
    pending_ctx,         \* run_server's pending_ctx (its request_id; NULL: none)
    ctx,                 \* the call context being processed (its request_id)
    g_cq,                \* events on the server's completion queue, oldest first
    outstanding,         \* operations registered on g_cq and not yet completed
    method,              \* call_details.method of each arrived context
    err,                 \* result of the serving thread's last grpc_call_start_batch
    arrivals,            \* inbound calls delivered so far
    dropped,             \* contexts whose call-arrived event was taken and ignored
    handled,             \* contexts handle_fetch_legacy_data was invoked for
    sent,                \* the send batches started, per context
    respObserved,        \* contexts whose own send batch's completion was taken
    freed,               \* contexts passed to cleanup_call_context
    tel,                 \* what the handler's first log_otlp met, per context
    fnPc,                \* how far the function applied on its own has got
    fnArg,               \* the arguments of the function applied on its own
    fnRes                \* what that function has produced so far

expVars == <<running, pending, pending_count, mutex, overflow, pc, item, batch,
             batch_count, idx, call, nextCall, inflight, cq, outcome, written, ret,
             inDestroy, destroySteps, nextItem, enqCalls, flushes, accepted, rejected,
             handed, drainSnap, flushHanded, bgDrainsAfterJoin, timedOut, cur>>
metVars == <<g_request_count, g_total_duration_ms, g_metrics_mutex, g_shutdown, snap,
             recorded, ticks, emitted>>
srvVars == <<spc, request_counter, pending_ctx, ctx, g_cq, outstanding, method,
             err, arrivals, dropped, handled, sent, respObserved, freed, tel>>
fnVars == <<fnPc, fnArg, fnRes>>
vars == <<created, expVars, metVars, srvVars, fnVars>>
\* Every exporter variable except pc and item.
expVarsButPcItem ==
    <<running, pending, pending_count, mutex, overflow, batch, batch_count, idx,
      call, nextCall, inflight, cq, outcome, written, ret, inDestroy,
      destroySteps,
      nextItem, enqCalls, flushes, accepted, rejected, handed, drainSnap,
      flushHanded, bgDrainsAfterJoin, timedOut, cur>>

\* ------------------------------------------------------------------ helpers
Slots == 0 .. (MAX_BATCH_SIZE - 1)

IsExporter == created \in {"span", "log"}

\* The tag this exporter registers its export batch with.
ExportTag ==
    IF created = "span" THEN SPAN_TAG
    ELSE IF created = "log" THEN LOG_TAG ELSE METRICS_TAG

\* pending[i], read as the C array is read (no slot beyond the array here).
PendingAt(i) == IF i \in Slots THEN pending[i] ELSE NULL

\* The slot holds an item.
Occupied(x) == x # NULL

\* The items in slots 0 .. n-1 of the array f, in slot order.
SlotsSeq(f, n) ==
    SelectSeq([i \in 1 .. n |-> IF (i - 1) \in Slots THEN f[i - 1] ELSE NULL],
              Occupied)

\* The items the exporter holds as pending: slots 0 .. pending_count-1.
PendingItems == SlotsSeq(pending, pending_count)

RECURSIVE Flatten(_)
Flatten(ss) == IF ss = <<>> THEN <<>> ELSE Head(ss) \o Flatten(Tail(ss))

\* pthread_mutex_lock(&exporter->mutex) returns only when no thread owns it.
CanLockBroken(t) == TRUE
CanLock(t) == mutex = NoOwner

\* if (exporter->pending_count >= MAX_BATCH_SIZE)
BatchFullOffByOne(n) == n > MAX_BATCH_SIZE
BatchFull(n) == n >= MAX_BATCH_SIZE

\* The needle of run_server's method test.
FetchLegacyData ==
    <<"F", "e", "t", "c", "h", "L", "e", "g", "a", "c", "y", "D", "a", "t",
      "a">>

\* ------------------------------------------------- C strings and pointers
(* A C string is the sequence of its characters up to the terminator; a    *)
(* pointer is NullPtr or PtrTo what it points to.                          *)
NullPtr == <<>>
PtrTo(x) == <<x>>
Deref(p) == p[1]

\* static const char hex[] = "0123456789abcdef";
hex ==
    <<"0", "1", "2", "3", "4", "5", "6", "7", "8", "9", "a", "b", "c", "d",
      "e", "f">>

\* The upper-case digits, which scanf's %x reads as well.
HEX ==
    <<"0", "1", "2", "3", "4", "5", "6", "7", "8", "9", "A", "B", "C", "D",
      "E", "F">>

\* The string of n characters whose i-th is hex[(i * k) % 16].
HexString(n, k) == [i \in 1 .. n |-> hex[((i * k) % 16) + 1]]

\* ------------------------------------------------------------- caller's spans
\* An otlp_span_t a caller passes to otlp_export_span.
CallerSpan(t, p, m, a) ==
    [trace_id |-> t,
     span_id |-> PtrTo(HexString(16, 11)),
     parent_span_id |-> p,
     name |-> PtrTo(FetchLegacyData),
     kind |-> SPAN_KIND_SERVER,
     start_time_nanos |-> 1000,
     end_time_nanos |-> 4000,
     status_code |-> IF m = NullPtr THEN SPAN_STATUS_OK ELSE SPAN_STATUS_ERROR,
     status_message |-> m,
     attributes |-> IF a = <<>> THEN NullPtr ELSE PtrTo(a),
     attribute_count |-> Len(a)]

(* Trace identifiers a caller passes: "a" 32 times, a mixed one, one with  *)
(* a character that is no hex digit, a short one.                          *)
TraceIdArgs ==
    {PtrTo([i \in 1 .. 32 |-> "a"]), PtrTo(HexString(32, 7)),
     PtrTo([HexString(32, 3) EXCEPT ![5] = "g"]), PtrTo(HexString(8, 1))}

(* The spans callers pass: with and without a parent, a status message,    *)
(* attributes (in two orders).                                             *)
CallerSpans ==
    LET k1 == [key |-> PtrTo(<<"k", "1">>), string_value |-> PtrTo(<<"x">>)]
        k2 == [key |-> PtrTo(<<"k", "2">>), string_value |-> PtrTo(<<"y">>)]
    IN  {CallerSpan(t, p, m, a) :
            t \in TraceIdArgs,
            p \in {NullPtr, PtrTo(HexString(16, 5))},
            m \in {NullPtr, PtrTo(<<"b", "o", "o", "m">>)},
            a \in {<<>>, <<k1, k2>>, <<k2, k1>>}}

ServiceNames ==
    {<<"s", "v", "c">>, <<"s", "e", "r", "v", "i", "c", "e", "-", "f">>}

(* The calls of otlp_export_span that fill one batch: the exporter's       *)
(* service name and the caller's spans, in call order; batches of one      *)
(* span, and of two root spans.                                            *)
SpanCalls ==
    LET roots == {CallerSpan(t, NullPtr, NullPtr, <<>>) : t \in TraceIdArgs}
        odd == {[CallerSpan(t, p, NullPtr, <<>>) EXCEPT !.span_id = s] :
                   t \in {NullPtr, PtrTo(HexString(32, 7))},
                   p \in {PtrTo(HexString(15, 5)), PtrTo(<<>>)},
                   s \in {NullPtr, PtrTo(HexString(12, 11))}}
        many == CallerSpan(PtrTo(HexString(32, 7)), NullPtr, NullPtr,
                           [j \in 1 .. 17 |->
                               [key |-> PtrTo(<<"k", hex[(j % 16) + 1]>>),
                                string_value |-> PtrTo(<<hex[(j % 16) + 1]>>)]])
        few == CallerSpan(PtrTo(HexString(32, 7)), NullPtr, NullPtr,
                          [j \in 1 .. 16 |->
                              [key |-> PtrTo(<<"k", hex[j]>>),
                               string_value |-> PtrTo(<<hex[j]>>)]])
    IN  {[fn |-> "otlp_export_span", service_name |-> n, spans |-> b] :
            n \in ServiceNames,
            b \in {<<x>> : x \in CallerSpans \cup odd}
                  \cup {<<x, y>> : x \in roots, y \in roots}
                  \cup {<<many>>, <<few, few>>, <<many, few>>, <<few, many>>}}

(* The calls of otlp_export_log that fill one batch: records as log_otlp   *)
(* builds them (main.c lines 73-87), with and without a trace and a span   *)
(* identifier, of the full length and shorter.                             *)
LogCalls ==
    LET attrs == <<[key |-> PtrTo(<<"s", "e", "r", "v", "i", "c", "e", ".",
                                    "n", "a", "m", "e">>),
                    string_value |-> PtrTo(<<"s", "v", "c">>)]>>
        rec(t, sp) ==
            [trace_id |-> t, span_id |-> sp, severity |-> 9,
             body |-> PtrTo(<<"h", "i">>), timestamp_nanos |-> 1000,
             attributes |-> PtrTo(attrs), attribute_count |-> 1]
        recs == {rec(t, sp) :
                    t \in TraceIdArgs \cup {NullPtr},
                    sp \in {NullPtr, PtrTo(HexString(16, 11)),
                            PtrTo(HexString(15, 11))}}
        many == [rec(NullPtr, NullPtr) EXCEPT
                    !.attributes = PtrTo([j \in 1 .. 17 |-> attrs[1]]),
                    !.attribute_count = 17]
    IN  {[fn |-> "otlp_export_log", service_name |-> n, records |-> b] :
            n \in ServiceNames,
            b \in {<<x>> : x \in recs}
                  \cup {<<x, y>> : x \in recs, y \in {rec(NullPtr, NullPtr)}}
                  \cup {<<many, rec(NullPtr, NullPtr)>>}}

\* --------------------------------------------------------- inbound metadata
\* The terminator of a C string, in a character buffer.
NUL == ""

\* The string a character buffer holds: the characters before the first NUL.
CString(buf) ==
    IF \E i \in 1 .. Len(buf) : buf[i] = NUL
    THEN SubSeq(buf, 1, (CHOOSE i \in 1 .. Len(buf) :
                            buf[i] = NUL /\ \A j \in 1 .. (i - 1) : buf[j] # NUL) - 1)
    ELSE buf

(* The metadata arrays calls arrive with: no entry, entries under other    *)
(* keys, traceparent values of 55 characters and more (well formed, and    *)
(* with an unknown version, flags and characters that are no hex digits),  *)
(* and shorter ones (54 characters, none), alone and in pairs.             *)
ExtractCalls ==
    LET tp == <<"t", "r", "a", "c", "e", "p", "a", "r", "e", "n", "t">>
        val(v, t, p, f) == v \o <<"-">> \o t \o <<"-">> \o p \o <<"-">> \o f
        wellFormed ==
            val(<<"0", "0">>, HexString(32, 7), HexString(16, 5), <<"0", "1">>)
        unchecked ==
            val(<<"z", "z">>, [HexString(32, 3) EXCEPT ![1] = "G"],
                [HexString(16, 9) EXCEPT ![16] = "!"],
                <<"x", "y", "e", "x", "t", "r", "a">>)
        short == SubSeq(wellFormed, 1, 54)
        entries ==
            {[key |-> tp, value |-> wellFormed],
             [key |-> tp, value |-> unchecked],
             [key |-> tp, value |-> short],
             [key |-> tp, value |-> <<>>],
             [key |-> <<"x", "-", "i", "d">>, value |-> unchecked]}
    IN  {[fn |-> "extract_trace_context", metadata |-> md] :
            md \in {<<>>} \cup {<<e>> : e \in entries}
                   \cup {<<e, f>> : e \in entries, f \in entries}}

\* What successive calls of rand() return.
RandStreams ==
    {[i \in 1 .. 32 |-> 12345 + (i * k)] : k \in {0, 7, 1103}}

(* The identifiers hex_to_bytes is given, with the number of bytes asked   *)
(* for: lower-case hex of the full length, and upper-case digits, a        *)
(* character that is no hex digit, a longer string.                        *)
HexCalls ==
    LET ids(n) ==
            {HexString(2 * n, k) : k \in {0, 1, 3, 7, 11, 15}}
            \cup {[i \in 1 .. (2 * n) |-> "a"],
                  [i \in 1 .. (2 * n) |-> HEX[((i * 5) % 16) + 1]],
                  [HexString(2 * n, 3) EXCEPT ![5] = "g"],
                  HexString((2 * n) + 4, 9)}
    IN  {[fn |-> "hex_to_bytes", hex |-> h, len |-> n] :
            n \in {16, 8}, h \in ids(16) \cup ids(8)}

(* The calls of otlp_export_metrics: the exporter's service name, the      *)
(* metrics array and its count; the counter and the gauge of the metrics   *)
(* thread in both orders, one alone, a histogram without points, and an    *)
(* empty array.                                                            *)
MetricCalls ==
    LET point(v, d) == [timestamp_nanos |-> 5000, value |-> v, is_double |-> d]
        counter ==
            [name |-> <<"r", "e", "q", "u", "e", "s", "t", "s">>,
             description |-> <<"T", "o", "t", "a", "l">>,
             unit |-> <<"1">>, type |-> "METRIC_TYPE_COUNTER",
             data_points |-> <<point(2, 0)>>, histogram_points |-> <<>>]
        gauge ==
            [name |-> <<"d", "u", "r", "a", "t", "i", "o", "n">>,
             description |-> <<"A", "v", "e", "r", "a", "g", "e">>,
             unit |-> <<"m", "s">>, type |-> "METRIC_TYPE_GAUGE",
             data_points |-> <<point(5, 1)>>, histogram_points |-> <<>>]
        histogram ==
            [name |-> <<"h">>, description |-> <<>>, unit |-> <<"m", "s">>,
             type |-> "METRIC_TYPE_HISTOGRAM",
             data_points |-> <<>>, histogram_points |-> <<>>]
    IN  {[fn |-> "otlp_export_metrics", service_name |-> n, metrics |-> b] :
            n \in ServiceNames,
            b \in {<<>>, <<counter>>, <<counter, gauge>>, <<gauge, counter>>,
                   <<gauge, histogram, counter>>}}

(* The endpoints the exporters are created with: with and without a      *)
(* prefix and a port, an IPv6 literal, two colons, two prefixes, none.     *)
EndpointCalls ==
    {[fn |-> "parse_endpoint", endpoint |-> e] : e \in
        {<<"l", "o", "c", "a", "l", "h", "o", "s", "t", ":", "4", "3",
           "1", "7">>,
         <<"h", "t", "t", "p", ":", "/", "/", "o", "t", "e", "l", "-",
           "c", "o", "l", "l", "e", "c", "t", "o", "r", ":", "4", "3",
           "1", "7">>,
         <<"h", "t", "t", "p", "s", ":", "/", "/", "c", ":", "1">>,
         <<"c", "o", "l", "l", "e", "c", "t", "o", "r">>,
         <<"h", "t", "t", "p", ":", "/", "/", "c", "o", "l", "l", "e",
           "c", "t", "o", "r">>,
         <<"[", ":", ":", "1", "]", ":", "4", "3", "1", "7">>,
         <<"h", "t", "t", "p", ":", "/", "/", "[", ":", ":", "1", "]",
           ":", "4", "3", "1", "7">>,
         <<"h", ":", "4", "3", "1", "7", ":", "1">>,
         <<>>,
         <<"h", "t", "t", "p", ":", "/", "/", "h", "t", "t", "p", "s",
           ":", "/", "/", "h", ":", "2">>,
         <<"h", ":">>}}

\* The arguments a function applied on its own is given.
CallInputs ==
    SpanCalls \cup ExtractCalls \cup HexCalls \cup MetricCalls \cup EndpointCalls
        \cup LogCalls

\* ---------------------------------------------------------------------- Init
(* otlp_exporter_create / otlp_log_exporter_create: calloc'ed exporter,     *)
(* mutex initialised, running = 1, background thread started.  The         *)
(* application then enqueues a burst of "prefill" items while the          *)
(* background thread is in its first one-second sleep: every one of them   *)
(* is accepted and stored in slot order.                                   *)
InitState(k, prefill) ==
    /\ created = k
    /\ running = 1
    /\ pending = [i \in Slots |-> IF i < prefill THEN i + 1 ELSE NULL]
    /\ pending_count = prefill
    /\ mutex = NoOwner
    /\ overflow = FALSE
    /\ pc = [t \in Threads |->
                IF k \in {"server", "none"} THEN "absent"
                ELSE IF k = "metrics"
                THEN (IF t \in {"bg"} \cup Producers THEN "absent"
                      ELSE IF t = "met" THEN "loop" ELSE "idle")
                ELSE (IF t \in {"met", "req"} THEN "absent"
                      ELSE IF t = "bg" THEN "loop" ELSE "idle")]
    /\ item = [t \in Producers \cup {"req"} |-> NULL]
    /\ batch = [t \in DrainThreads |-> <<>>]
    /\ batch_count = [t \in DrainThreads |-> 0]
    /\ idx = [t \in DrainThreads |-> 0]
    /\ call = [t \in Threads |-> 0]
    /\ nextCall = 0
    /\ inflight = {}
    /\ cq = <<>>
    /\ outcome = [t \in Threads |-> "none"]
    /\ written = [t \in Threads |-> FALSE]
    /\ ret = [t \in Threads |-> <<>>]
    /\ inDestroy = FALSE
    /\ destroySteps = <<>>
    /\ nextItem = prefill + 1
    /\ enqCalls = 0
    /\ flushes = 0
    /\ accepted = [i \in 1 .. prefill |-> i]
    /\ rejected = {}
    /\ handed = <<>>
    /\ drainSnap = [t \in DrainThreads |-> <<>>]
    /\ flushHanded = <<>>
    /\ bgDrainsAfterJoin = 0
    /\ timedOut = {}
    /\ cur = [t \in DrainThreads |-> 0]
    /\ g_request_count = 0
    /\ g_total_duration_ms = 0
    /\ g_metrics_mutex = NoOwner
    /\ g_shutdown = FALSE
    /\ snap = [count |-> 0, total |-> 0]
    /\ recorded = 0
    /\ ticks = 0
    /\ emitted = <<>>
    /\ spc = IF k = "server" THEN "start" ELSE "absent"
    /\ request_counter = 0
    /\ pending_ctx = NULL
    /\ ctx = NULL
    /\ g_cq = <<>>
    /\ outstanding = {}
    /\ method = <<>>
    /\ err = "OK"
    /\ arrivals = 0
    /\ dropped = {}
    /\ handled = {}
    /\ sent = {}
    /\ respObserved = {}
    /\ freed = {}
    /\ tel = <<>>
    /\ fnPc = IF k = "none" THEN "ready" ELSE "none"
    /\ fnArg \in (IF k = "none" THEN CallInputs ELSE {<<>>})
    /\ fnRes = <<>>

ghostVars == <<accepted, rejected, handed, drainSnap, flushHanded,
               bgDrainsAfterJoin, timedOut, cur>>
grpcVars == <<call, nextCall, inflight, cq, outcome, written>>
queueVars == <<pending, pending_count, overflow>>
localVars == <<batch, batch_count, idx>>
ctlVars == <<running, inDestroy, destroySteps, flushes>>

\* Operations counted against MaxOps so far.
OpsUsed == enqCalls + flushes + Cardinality(timedOut)

\* ------------------------------------------------------------------ enqueue
(* otlp_export_span / otlp_export_log, entry.  The callers in main.c pass  *)
(* a non-NULL exporter and a non-NULL item, so the NULL guard falls        *)
(* through.  No enqueue is started once destroy() has been called.         *)
EnqCall(p) ==
    /\ IsExporter
    /\ pc[p] = "idle"
    /\ ~inDestroy
    /\ OpsUsed < MaxOps
    /\ item' = [item EXCEPT ![p] = nextItem]
    /\ nextItem' = nextItem + 1
    /\ enqCalls' = enqCalls + 1
    /\ ret' = [ret EXCEPT ![p] = <<>>]
    /\ pc' = [pc EXCEPT ![p] = "enq_lock"]
    /\ UNCHANGED <<created, fnVars, srvVars, queueVars, mutex, localVars, grpcVars, ctlVars,
                   ghostVars, metVars>>

\* pthread_mutex_lock(&exporter->mutex)
EnqLock(p) ==
    /\ pc[p] = "enq_lock"
    /\ CanLock(p)
    /\ mutex' = p
    /\ pc' = [pc EXCEPT ![p] = "enq_check"]
    /\ UNCHANGED <<created, fnVars, srvVars, queueVars, item, nextItem, enqCalls, ret, localVars,
                   grpcVars, ctlVars, ghostVars, metVars>>

\* Batch full: unlock, log, return -1.
EnqFull(p) ==
    /\ pc[p] = "enq_check"
    /\ BatchFull(pending_count)
    /\ mutex' = NoOwner
    /\ ret' = [ret EXCEPT ![p] = <<-1>>]
    /\ rejected' = rejected \cup {item[p]}
    /\ pc' = [pc EXCEPT ![p] = "idle"]
    /\ UNCHANGED <<created, fnVars, srvVars, queueVars, item, nextItem, enqCalls, localVars,
                   grpcVars, ctlVars, accepted, handed, drainSnap, flushHanded,
                   bgDrainsAfterJoin, timedOut, cur, metVars>>

\* The array after  pending[pending_count++] = copy.
StoreAtFront(it) ==
    [i \in Slots |-> IF i = 0 THEN it
                     ELSE IF i <= pending_count THEN pending[i - 1] ELSE pending[i]]
StoreCopy(it) ==
    IF pending_count \in Slots THEN [pending EXCEPT ![pending_count] = it]
    ELSE pending

\* Copy the item, store it at pending[pending_count++], unlock, return 0.
EnqStore(p) ==
    /\ pc[p] = "enq_check"
    /\ ~BatchFull(pending_count)
    /\ pending' = StoreCopy(item[p])
    /\ overflow' = (overflow \/ pending_count \notin Slots)
    /\ pending_count' = pending_count + 1
    /\ mutex' = NoOwner
    /\ ret' = [ret EXCEPT ![p] = <<0>>]
    /\ accepted' = Append(accepted, item[p])
    /\ pc' = [pc EXCEPT ![p] = "idle"]
    /\ UNCHANGED <<created, fnVars, srvVars, item, nextItem, enqCalls, localVars, grpcVars,
                   ctlVars, rejected, handed, drainSnap, flushHanded,
                   bgDrainsAfterJoin, timedOut, cur, metVars>>

\* -------------------------------------------------------------------- drain
\* The background thread returns after its first pass instead of looping.
AfterDrainOnce(t) == IF t = "bg" THEN "done" ELSE "flush_ret"

\* Where a thread continues after its drain-and-export (or empty check).
AfterDrain(t) == IF t = "bg" THEN "loop" ELSE "flush_ret"

\* export_thread_func: while (exporter->running) { usleep(1000000); ...
BgLoop ==
    /\ IsExporter
    /\ pc["bg"] = "loop"
    /\ pc' = [pc EXCEPT !["bg"] = IF running = 1 THEN "lock" ELSE "done"]
    /\ UNCHANGED <<created, fnVars, srvVars, queueVars, mutex, item, nextItem, enqCalls, ret,
                   localVars, grpcVars, ctlVars, ghostVars, metVars>>

\* pthread_mutex_lock in export_thread_func and in flush.
DrainLock(t) ==
    /\ pc[t] = "lock"
    /\ CanLock(t)
    /\ mutex' = t
    /\ pc' = [pc EXCEPT ![t] = "check"]
    /\ drainSnap' = [drainSnap EXCEPT ![t] = PendingItems]
    /\ UNCHANGED <<created, fnVars, srvVars, queueVars, item, nextItem, enqCalls, ret, localVars,
                   grpcVars, ctlVars, accepted, rejected, handed, flushHanded,
                   bgDrainsAfterJoin, timedOut, cur, metVars>>

\* size_t batch_count = exporter->pending_count;
BatchCountShort == pending_count - 1
BatchCountAtDrain == pending_count

\* if (exporter->pending_count > 0) { batch_count = pending_count; i = 0 ...
DrainBegin(t) ==
    /\ pc[t] = "check"
    /\ pending_count > 0
    /\ batch_count' = [batch_count EXCEPT ![t] = BatchCountAtDrain]
    /\ idx' = [idx EXCEPT ![t] = 0]
    /\ batch' = [batch EXCEPT ![t] = <<>>]
    /\ pc' = [pc EXCEPT ![t] = "copy"]
    /\ bgDrainsAfterJoin' =
         IF t = "bg" /\ "join" \in {destroySteps[i] : i \in 1 .. Len(destroySteps)}
         THEN bgDrainsAfterJoin + 1 ELSE bgDrainsAfterJoin
    /\ UNCHANGED <<created, fnVars, srvVars, queueVars, mutex, item, nextItem, enqCalls, ret,
                   grpcVars, ctlVars, accepted, rejected, handed, drainSnap,
                   flushHanded, timedOut, cur, metVars>>

\* } else { pthread_mutex_unlock(&exporter->mutex); }
DrainEmpty(t) ==
    /\ pc[t] = "check"
    /\ pending_count <= 0
    /\ mutex' = NoOwner
    /\ pc' = [pc EXCEPT ![t] = AfterDrain(t)]
    /\ UNCHANGED <<created, fnVars, srvVars, queueVars, item, nextItem, enqCalls, ret, localVars,
                   grpcVars, ctlVars, ghostVars, metVars>>

\* The slot iteration i of the copy loop reads: batch[i] = pending[i].
CopySourceReversed(t) == PendingAt(batch_count[t] - 1 - idx[t])
CopySource(t) == PendingAt(idx[t])

\* One iteration: batch[i] = pending[i]; pending[i] = NULL;
DrainCopy(t) ==
    /\ pc[t] = "copy"
    /\ idx[t] < batch_count[t]
    /\ batch' = [batch EXCEPT ![t] = Append(@, CopySource(t))]
    /\ pending' = IF idx[t] \in Slots THEN [pending EXCEPT ![idx[t]] = NULL]
                  ELSE pending
    /\ idx' = [idx EXCEPT ![t] = @ + 1]
    /\ UNCHANGED <<created, fnVars, srvVars, pending_count, overflow, mutex, pc, item, nextItem,
                   enqCalls, ret, batch_count, grpcVars, ctlVars, ghostVars,
                   metVars>>

\* pthread_mutex_unlock(&exporter->mutex) ahead of do_export.
OwnerAfterDrainKept(t) == t
OwnerAfterDrain(t) == NoOwner

\* Loop done: pending_count = 0; unlock; do_export(exporter, batch, batch_count)
DrainReset(t) ==
    /\ pc[t] = "copy"
    /\ idx[t] >= batch_count[t]
    /\ pending_count' = 0
    /\ mutex' = OwnerAfterDrain(t)
    /\ pc' = [pc EXCEPT ![t] = "export"]
    /\ UNCHANGED <<created, fnVars, srvVars, pending, overflow, item, nextItem, enqCalls, ret,
                   localVars, grpcVars, ctlVars, ghostVars, metVars>>

\* ---------------------------------------------------------------- do_export
ExportThreads == DrainThreads \cup {"met"}

\* do_export is entered with the drained batch: record the hand-over.
HandOver(t) ==
    /\ handed' = IF t \in DrainThreads
                 THEN Append(handed, [by |-> t, items |-> batch[t]]) ELSE handed
    /\ flushHanded' = IF t = "main" /\ IsExporter
                      THEN Append(flushHanded, batch[t]) ELSE flushHanded
    /\ cur' = IF t \in DrainThreads THEN [cur EXCEPT ![t] = Len(handed) + 1]
              ELSE cur

\* if (!call) { log; goto cleanup; }
ExportCreateFail(t) ==
    /\ pc[t] = "export"
    /\ HandOver(t)
    /\ call' = [call EXCEPT ![t] = 0]
    /\ outcome' = [outcome EXCEPT ![t] = "create_failed"]
    /\ written' = [written EXCEPT ![t] = FALSE]
    /\ pc' = [pc EXCEPT ![t] = "free"]
    /\ UNCHANGED <<created, fnVars, srvVars, queueVars, mutex, item, nextItem, enqCalls, ret,
                   localVars, nextCall, inflight, cq, ctlVars, accepted, rejected,
                   drainSnap, bgDrainsAfterJoin, timedOut, metVars>>

(* grpc_channel_create_call returned a call, and                           *)
(* grpc_call_start_batch(call, ops, 6, tag, NULL) != GRPC_CALL_OK:         *)
(* log; grpc_call_unref(call); goto cleanup;                               *)
ExportStartFail(t) ==
    /\ pc[t] = "export"
    /\ HandOver(t)
    /\ nextCall' = nextCall + 1
    /\ call' = [call EXCEPT ![t] = nextCall + 1]
    /\ outcome' = [outcome EXCEPT ![t] = "start_failed"]
    /\ written' = [written EXCEPT ![t] = FALSE]
    /\ pc' = [pc EXCEPT ![t] = "free"]
    /\ UNCHANGED <<created, fnVars, srvVars, queueVars, mutex, item, nextItem, enqCalls, ret,
                   localVars, inflight, cq, ctlVars, accepted, rejected,
                   drainSnap, bgDrainsAfterJoin, timedOut, metVars>>

(* The call is created and its batch of six operations is started; the     *)
(* thread goes on to wait on the completion queue.                         *)
ExportStartOk(t) ==
    /\ pc[t] = "export"
    /\ HandOver(t)
    /\ nextCall' = nextCall + 1
    /\ call' = [call EXCEPT ![t] = nextCall + 1]
    /\ inflight' = inflight \cup {nextCall + 1}
    /\ outcome' = [outcome EXCEPT ![t] = "none"]
    /\ written' = [written EXCEPT ![t] = FALSE]
    /\ pc' = [pc EXCEPT ![t] = "wait"]
    /\ UNCHANGED <<created, fnVars, srvVars, queueVars, mutex, item, nextItem, enqCalls, ret,
                   localVars, cq, ctlVars, accepted, rejected,
                   drainSnap, bgDrainsAfterJoin, timedOut, metVars>>

(* The collector (or the transport) completes a started batch: the         *)
(* completion is posted on the exporter's queue with the batch's tag.      *)
(* It may come after the caller gave up waiting.                           *)
CollectorRespond(c, success, status) ==
    /\ c \in inflight
    /\ pc["main"] # "crashed"
    /\ inflight' = inflight \ {c}
    /\ cq' = Append(cq, [call |-> c, tag |-> ExportTag, success |-> success,
                         status |-> status])
    /\ UNCHANGED <<created, fnVars, srvVars, queueVars, mutex, pc, item, nextItem, enqCalls, ret,
                   localVars, call, nextCall, outcome, written, ctlVars,
                   ghostVars, metVars>>

(* What the thread reads from its local status_code after an event:        *)
(* the batch's own status when the event is its own completion; an         *)
(* indeterminate value when the event belongs to another call (the local   *)
(* is declared without initialiser and this call's batch never wrote it).  *)
StatusRead(t, ev) ==
    IF ev.call = call[t] THEN {ev.status} ELSE {"OK", "NOT_OK"}

\* if (ev.type == GRPC_OP_COMPLETE && ev.success) { if (status_code != OK) ...
EventOutcome(ev, status) ==
    IF ev.success
    THEN (IF status # "OK" THEN "status_not_ok" ELSE "ok")
    ELSE "timed_out_or_failed"

(* grpc_completion_queue_next(exporter->cq, deadline, NULL) returns the    *)
(* oldest event of the queue, whatever call it completes; the result is    *)
(* interpreted and the gRPC resources of the call are cleaned up.          *)
ExportWaitEvent(t) ==
    /\ pc[t] = "wait"
    /\ cq # <<>>
    /\ \E st \in StatusRead(t, Head(cq)) :
          outcome' = [outcome EXCEPT ![t] = EventOutcome(Head(cq), st)]
    /\ written' = [written EXCEPT ![t] = (Head(cq).call = call[t])]
    /\ cq' = Tail(cq)
    /\ pc' = [pc EXCEPT ![t] = "free"]
    /\ UNCHANGED <<created, fnVars, srvVars, queueVars, mutex, item, nextItem, enqCalls, ret,
                   localVars, call, nextCall, inflight, ctlVars, ghostVars,
                   metVars>>

(* The 5-second deadline passes with no event on the queue                 *)
(* (GRPC_QUEUE_TIMEOUT): "Export timed out or failed" is logged and the    *)
(* gRPC resources are cleaned up; the call's batch stays outstanding.      *)
ExportWaitTimeout(t) ==
    /\ pc[t] = "wait"
    /\ cq = <<>>
    /\ OpsUsed < MaxOps
    /\ outcome' = [outcome EXCEPT ![t] = "timeout"]
    /\ timedOut' = IF t \in DrainThreads THEN timedOut \cup {cur[t]} ELSE timedOut
    /\ pc' = [pc EXCEPT ![t] = "free"]
    /\ UNCHANGED <<created, fnVars, srvVars, queueVars, mutex, item, nextItem, enqCalls, ret,
                   localVars, call, nextCall, inflight, cq, written, ctlVars,
                   accepted, rejected, handed, drainSnap, flushHanded,
                   bgDrainsAfterJoin, cur, metVars>>

(* The wait ended without this call's batch having completed (the deadline *)
(* passed, or the event taken was another call's): status_details was      *)
(* declared without initialiser and never written, and the cleanup's       *)
(* grpc_slice_unref(status_details) reads it.  Besides going on as in the  *)
(* two actions above, the build may fault there, which ends the process    *)
(* and with it every thread.                                               *)
ExportCleanupCrash(t) ==
    /\ pc[t] = "wait"
    /\ \/ cq = <<>> /\ OpsUsed < MaxOps
       \/ cq # <<>> /\ Head(cq).call # call[t]
    /\ cq' = IF cq = <<>> THEN cq ELSE Tail(cq)
    /\ timedOut' = IF cq = <<>> /\ t \in DrainThreads
                   THEN timedOut \cup {cur[t]} ELSE timedOut
    /\ pc' = [u \in Threads |-> "crashed"]
    /\ UNCHANGED <<created, fnVars, srvVars, queueVars, mutex, item, nextItem, enqCalls, ret,
                   localVars, call, nextCall, inflight, outcome, written,
                   ctlVars, accepted, rejected, handed, drainSnap, flushHanded,
                   bgDrainsAfterJoin, cur, metVars>>

(* The pending array and count after do_export's "cleanup:" block and the  *)
(* caller's loop freeing the copies: neither touches the exporter's queue. *)
RequeueOnFailure(t) ==
    IF outcome[t] \in {"timeout", "status_not_ok"} /\ pending_count = 0
    THEN [pending |-> [i \in Slots |->
                          IF i < Len(batch[t]) THEN batch[t][i + 1] ELSE pending[i]],
          pending_count |-> Len(batch[t])]
    ELSE [pending |-> pending, pending_count |-> pending_count]
QueueAfterExport(t) == [pending |-> pending, pending_count |-> pending_count]

(* do_export's "cleanup:" block, return 0, and the caller's loop freeing    *)
(* the copies; the locals of the drain and of do_export go out of scope.   *)
ExportFree(t) ==
    /\ t \in DrainThreads
    /\ pc[t] = "free"
    /\ pending' = QueueAfterExport(t).pending
    /\ pending_count' = QueueAfterExport(t).pending_count
    /\ batch' = [batch EXCEPT ![t] = <<>>]
    /\ batch_count' = [batch_count EXCEPT ![t] = 0]
    /\ idx' = [idx EXCEPT ![t] = 0]
    /\ call' = [call EXCEPT ![t] = 0]
    /\ written' = [written EXCEPT ![t] = FALSE]
    /\ pc' = [pc EXCEPT ![t] = AfterDrain(t)]
    /\ outcome' = [outcome EXCEPT ![t] = IF t = "bg" THEN "none" ELSE @]
    /\ drainSnap' = [drainSnap EXCEPT ![t] = IF t = "bg" THEN <<>> ELSE @]
    /\ UNCHANGED <<created, fnVars, srvVars, overflow, mutex, item, nextItem, enqCalls, ret,
                   nextCall, inflight, cq, ctlVars, accepted, rejected, handed,
                   flushHanded, bgDrainsAfterJoin, timedOut, cur, metVars>>

\* ------------------------------------------------------------ flush, destroy
\* otlp_exporter_flush / otlp_log_exporter_flush, entry (exporter non-NULL).
FlushCall ==
    /\ IsExporter
    /\ pc["main"] = "idle"
    /\ ~inDestroy
    /\ OpsUsed < MaxOps
    /\ flushes' = flushes + 1
    /\ flushHanded' = <<>>
    /\ ret' = [ret EXCEPT !["main"] = <<>>]
    /\ pc' = [pc EXCEPT !["main"] = "lock"]
    /\ UNCHANGED <<created, fnVars, srvVars, queueVars, mutex, item, nextItem, enqCalls, localVars,
                   grpcVars, running, inDestroy, destroySteps, accepted, rejected,
                   handed, drainSnap, bgDrainsAfterJoin, timedOut, cur, metVars>>

\* The value flush returns: "return 0;" on every path past the NULL check.
FlushResult == 0

\* return 0;  (back in the application, or in destroy after its flush)
FlushReturn ==
    /\ IsExporter
    /\ pc["main"] = "flush_ret"
    /\ ret' = [ret EXCEPT !["main"] = <<FlushResult>>]
    /\ destroySteps' = IF inDestroy THEN Append(destroySteps, "flush")
                       ELSE destroySteps
    /\ pc' = [pc EXCEPT !["main"] = IF inDestroy THEN "release" ELSE "idle"]
    /\ outcome' = [outcome EXCEPT !["main"] = "none"]
    /\ drainSnap' = [drainSnap EXCEPT !["main"] = <<>>]
    /\ flushHanded' = <<>>
    /\ UNCHANGED <<created, fnVars, srvVars, queueVars, mutex, item, nextItem, enqCalls, localVars,
                   call, nextCall, inflight, cq, written, running, inDestroy,
                   flushes, accepted, rejected, handed, bgDrainsAfterJoin,
                   timedOut, cur, metVars>>

(* otlp_exporter_destroy: exporter->running = 0.  The application calls it *)
(* once no enqueue is in progress (the handle is freed at the end).        *)
DestroyCall ==
    /\ IsExporter
    /\ pc["main"] = "idle"
    /\ ~inDestroy
    /\ \A p \in Producers : pc[p] = "idle"
    /\ running' = 0
    /\ inDestroy' = TRUE
    /\ destroySteps' = <<"stop">>
    /\ pc' = [pc EXCEPT !["main"] = "join"]
    /\ UNCHANGED <<created, fnVars, srvVars, queueVars, mutex, item, nextItem, enqCalls, ret,
                   localVars, grpcVars, flushes, ghostVars, metVars>>

\* What destroy does once the join has returned: otlp_exporter_flush(exporter).
AfterJoinSkipFlush == "release"
AfterJoin == "lock"

\* pthread_join(exporter->export_thread, NULL); then the final flush.
DestroyJoin ==
    /\ IsExporter
    /\ pc["main"] = "join"
    /\ pc["bg"] = "done"
    /\ destroySteps' = Append(destroySteps, "join")
    /\ flushHanded' = <<>>
    /\ ret' = [ret EXCEPT !["main"] = <<>>]
    /\ pc' = [pc EXCEPT !["main"] = AfterJoin]
    /\ UNCHANGED <<created, fnVars, srvVars, queueVars, mutex, item, nextItem, enqCalls, localVars,
                   grpcVars, running, inDestroy, flushes, accepted, rejected,
                   handed, drainSnap, bgDrainsAfterJoin, timedOut, cur, metVars>>

\* grpc_channel_destroy(channel); grpc_completion_queue_shutdown(cq);
DestroyRelease ==
    /\ pc["main"] = "release"
    /\ destroySteps' = Append(destroySteps, "release")
    /\ pc' = [pc EXCEPT !["main"] = "cq_drain"]
    /\ UNCHANGED <<created, fnVars, srvVars, queueVars, mutex, item, nextItem, enqCalls, ret,
                   localVars, grpcVars, running, inDestroy, flushes, ghostVars,
                   metVars>>

\* do { ev = grpc_completion_queue_next(cq, inf) } while (type != SHUTDOWN): an event
DestroyDrainEvent ==
    /\ pc["main"] = "cq_drain"
    /\ cq # <<>>
    /\ cq' = Tail(cq)
    /\ UNCHANGED <<created, fnVars, srvVars, queueVars, mutex, pc, item, nextItem, enqCalls, ret,
                   localVars, call, nextCall, inflight, outcome, written, ctlVars,
                   ghostVars, metVars>>

(* GRPC_QUEUE_SHUTDOWN is delivered once the queue is shut down, empty and *)
(* no operation is outstanding on it; destroy then frees the exporter.     *)
DestroyShutdownEvent ==
    /\ pc["main"] = "cq_drain"
    /\ cq = <<>>
    /\ inflight = {}
    /\ destroySteps' = Append(destroySteps, "freed")
    /\ pc' = [pc EXCEPT !["main"] = "destroyed"]
    /\ UNCHANGED <<created, fnVars, srvVars, queueVars, mutex, item, nextItem, enqCalls, ret,
                   localVars, grpcVars, running, inDestroy, flushes, ghostVars,
                   metVars>>

\* ------------------------------------------------------------------ metrics
\* What otlp_export_metrics returns for an export that ended with outcome o.
MetricsResult(o) == IF o = "ok" THEN 0 ELSE -1

\* record_request_metrics(duration_ms), called by the request-serving thread.
RecordCall(d) ==
    /\ created = "metrics"
    /\ pc["req"] = "idle"
    /\ ~g_shutdown
    /\ recorded < MaxReq
    /\ recorded' = recorded + 1
    /\ item' = [item EXCEPT !["req"] = d]
    /\ pc' = [pc EXCEPT !["req"] = "rec_lock"]
    /\ UNCHANGED <<created, fnVars, srvVars, expVarsButPcItem, g_request_count, g_total_duration_ms,
                   g_metrics_mutex, g_shutdown, snap, ticks, emitted>>

\* record_request_metrics entering its section without taking the mutex.
RecordLockUnguarded ==
    /\ pc["req"] = "rec_lock"
    /\ g_metrics_mutex' = "req"
    /\ pc' = [pc EXCEPT !["req"] = "rec_count"]
    /\ UNCHANGED <<created, fnVars, srvVars, expVarsButPcItem, item, g_request_count,
                   g_total_duration_ms, g_shutdown, snap, recorded, ticks, emitted>>

\* pthread_mutex_lock(&g_metrics_mutex)
RecordLock ==
    /\ pc["req"] = "rec_lock"
    /\ g_metrics_mutex = NoOwner
    /\ g_metrics_mutex' = "req"
    /\ pc' = [pc EXCEPT !["req"] = "rec_count"]
    /\ UNCHANGED <<created, fnVars, srvVars, expVarsButPcItem, item, g_request_count,
                   g_total_duration_ms, g_shutdown, snap, recorded, ticks, emitted>>

\* g_request_count++;
RecordCount ==
    /\ pc["req"] = "rec_count"
    /\ g_request_count' = g_request_count + 1
    /\ pc' = [pc EXCEPT !["req"] = "rec_total"]
    /\ UNCHANGED <<created, fnVars, srvVars, expVarsButPcItem, item, g_total_duration_ms,
                   g_metrics_mutex, g_shutdown, snap, recorded, ticks, emitted>>

\* g_total_duration_ms += duration_ms; pthread_mutex_unlock(...); return.
RecordTotal ==
    /\ pc["req"] = "rec_total"
    /\ g_total_duration_ms' = g_total_duration_ms + item["req"]
    /\ g_metrics_mutex' = NoOwner
    /\ item' = [item EXCEPT !["req"] = NULL]
    /\ pc' = [pc EXCEPT !["req"] = "idle"]
    /\ UNCHANGED <<created, fnVars, srvVars, expVarsButPcItem, g_request_count, g_shutdown,
                   snap, recorded, ticks, emitted>>

\* metrics_export_thread: while (!g_shutdown) { sleep(10); ...
MetLoop ==
    /\ pc["met"] = "loop"
    /\ g_shutdown \/ ticks < MaxTick
    /\ pc' = [pc EXCEPT !["met"] = IF g_shutdown THEN "done" ELSE "sleep"]
    /\ UNCHANGED <<created, fnVars, srvVars, expVarsButPcItem, item, metVars>>

\* if (g_shutdown || !g_metrics_exporter) break;
MetWake ==
    /\ pc["met"] = "sleep"
    /\ pc' = [pc EXCEPT !["met"] = IF g_shutdown THEN "done" ELSE "m_lock"]
    /\ UNCHANGED <<created, fnVars, srvVars, expVarsButPcItem, item, metVars>>

\* pthread_mutex_lock(&g_metrics_mutex);
MetLock ==
    /\ pc["met"] = "m_lock"
    /\ g_metrics_mutex = NoOwner
    /\ g_metrics_mutex' = "met"
    /\ ticks' = ticks + 1
    /\ pc' = [pc EXCEPT !["met"] = "m_read_count"]
    /\ UNCHANGED <<created, fnVars, srvVars, expVarsButPcItem, item, g_request_count,
                   g_total_duration_ms, g_shutdown, snap, recorded, emitted>>

\* uint64_t request_count = g_request_count;
MetReadCount ==
    /\ pc["met"] = "m_read_count"
    /\ snap' = [snap EXCEPT !.count = g_request_count]
    /\ pc' = [pc EXCEPT !["met"] = "m_read_total"]
    /\ UNCHANGED <<created, fnVars, srvVars, expVarsButPcItem, item, g_request_count,
                   g_total_duration_ms, g_metrics_mutex, g_shutdown, recorded,
                   ticks, emitted>>

\* The accumulator with the snapshot taken out of it.
CountAfterSnapshotReset == g_request_count - snap.count

(* g_request_count once the snapshot's critical section ends: the section *)
(* reads the accumulator and assigns nothing to it.                        *)
CountAfterSnapshot == g_request_count

\* double total_duration = g_total_duration_ms; pthread_mutex_unlock(...);
MetReadTotal ==
    /\ pc["met"] = "m_read_total"
    /\ snap' = [snap EXCEPT !.total = g_total_duration_ms]
    /\ g_request_count' = CountAfterSnapshot
    /\ g_metrics_mutex' = NoOwner
    /\ pc' = [pc EXCEPT !["met"] = "m_check"]
    /\ UNCHANGED <<created, fnVars, srvVars, expVarsButPcItem, item, g_total_duration_ms,
                   g_shutdown, recorded, ticks, emitted>>

\* The test of  if (request_count == 0) continue;
TickNeverEmpty == FALSE
TickIsEmpty == snap.count = 0

\* if (request_count == 0) continue;   (the iteration's locals end here)
MetSkip ==
    /\ pc["met"] = "m_check"
    /\ TickIsEmpty
    /\ snap' = [count |-> 0, total |-> 0]
    /\ pc' = [pc EXCEPT !["met"] = "loop"]
    /\ UNCHANGED <<created, fnVars, srvVars, expVarsButPcItem, item, g_request_count,
                   g_total_duration_ms, g_metrics_mutex, g_shutdown, recorded,
                   ticks, emitted>>

(* Build the counter and the gauge data point and call                     *)
(* otlp_export_metrics(g_metrics_exporter, metrics, 2).  The gauge value   *)
(* total_duration / request_count is kept as the pair it is computed from. *)
MetBuild ==
    /\ pc["met"] = "m_check"
    /\ ~TickIsEmpty
    /\ emitted' = Append(emitted, [counter |-> snap.count,
                                   gauge_num |-> snap.total,
                                   gauge_den |-> snap.count])
    /\ pc' = [pc EXCEPT !["met"] = "export"]
    /\ UNCHANGED <<created, fnVars, srvVars, expVarsButPcItem, item, g_request_count,
                   g_total_duration_ms, g_metrics_mutex, g_shutdown, snap,
                   recorded, ticks>>

(* otlp_export_metrics: cleanup and return result; the locals of the call  *)
(* and of the loop iteration end here.                                     *)
MetExportReturn ==
    /\ pc["met"] = "free"
    /\ ret' = [ret EXCEPT !["met"] = <<MetricsResult(outcome["met"])>>]
    /\ outcome' = [outcome EXCEPT !["met"] = "none"]
    /\ call' = [call EXCEPT !["met"] = 0]
    /\ written' = [written EXCEPT !["met"] = FALSE]
    /\ snap' = [count |-> 0, total |-> 0]
    /\ pc' = [pc EXCEPT !["met"] = "loop"]
    /\ UNCHANGED <<created, fnVars, srvVars, queueVars, mutex, item, nextItem, enqCalls, localVars,
                   nextCall, inflight, cq, ctlVars, ghostVars, g_request_count,
                   g_total_duration_ms, g_metrics_mutex, g_shutdown, recorded,
                   ticks, emitted>>

\* main(): run_server has returned; g_shutdown = 1;
ShutdownSet ==
    /\ created = "metrics"
    /\ pc["main"] = "idle"
    /\ pc["req"] = "idle"
    /\ ~g_shutdown
    /\ g_shutdown' = TRUE
    /\ pc' = [pc EXCEPT !["main"] = "join_met"]
    /\ UNCHANGED <<created, fnVars, srvVars, expVarsButPcItem, item, g_request_count,
                   g_total_duration_ms, g_metrics_mutex, snap, recorded, ticks,
                   emitted>>

\* pthread_join(g_metrics_thread, NULL); otlp_metrics_exporter_destroy(...)
MetJoin ==
    /\ pc["main"] = "join_met"
    /\ pc["met"] = "done"
    /\ pc' = [pc EXCEPT !["main"] = "release"]
    /\ UNCHANGED <<created, fnVars, srvVars, expVarsButPcItem, item, metVars>>

\* ------------------------------------------------------------- run_server
\* The one method the service implements.
RegisteredMethod ==
    <<"/", "g", "r", "p", "c", "a", "r", "c", "h", ".", "S", "e", "r", "v",
      "i", "c", "e", "F", "/", "F", "e", "t", "c", "h", "L", "e", "g", "a",
      "c", "y", "D", "a", "t", "a">>

\* The methods inbound calls name.
Methods == <<
    <<"/", "g", "r", "p", "c", "a", "r", "c", "h", ".", "S", "e", "r", "v",
      "i", "c", "e", "F", "/", "F", "e", "t", "c", "h", "L", "e", "g", "a",
      "c", "y", "D", "a", "t", "a">>,
    <<"/", "g", "r", "p", "c", "a", "r", "c", "h", ".", "S", "e", "r", "v",
      "i", "c", "e", "F", "/", "O", "t", "h", "e", "r">>,
    <<"/", "g", "r", "p", "c", "a", "r", "c", "h", ".", "S", "e", "r", "v",
      "i", "c", "e", "F", "/", "F", "e", "t", "c", "h", "L", "e", "g", "a",
      "c", "y", "D", "a", "t", "a", "V", "2">> >>

\* strstr(haystack, needle) != NULL
strstr(haystack, needle) ==
    \E k \in 0 .. (Len(haystack) - Len(needle)) :
        SubSeq(haystack, k + 1, k + Len(needle)) = needle

(* call_details.method of context c: the method of the call that arrived   *)
(* on it, the empty slice of grpc_call_details_init before that.           *)
MethodOf(c) == IF c \in DOMAIN method THEN Methods[method[c]] ELSE <<>>

\* The batches the serving thread sends.
ResponseOps == <<"SEND_INITIAL_METADATA", "SEND_MESSAGE", "SEND_STATUS_OK">>
UnimplementedOps == <<"SEND_INITIAL_METADATA", "SEND_STATUS_UNIMPLEMENTED">>

\* An operation registered on g_cq: its tag, what it is, and its context.
Op(tag, kind, c) == [tag |-> tag, kind |-> kind, ctx |-> c]

(* request_call(): calloc, ctx->request_id = ++request_counter,            *)
(* grpc_server_request_call with the request_id as tag.  o is what         *)
(* happens: "ok", "nomem" (calloc returns NULL) or "err" (the registration *)
(* is refused and the context freed).  The result is the new values of     *)
(* request_counter, of the returned pointer and of the registered          *)
(* operations.                                                             *)
(* A refused grpc_server_request_call that leaves the registration in      *)
(* place all the same.                                                     *)
request_call_refused_registered(o) ==
    [counter |-> IF o = "nomem" THEN request_counter ELSE request_counter + 1,
     ctx |-> IF o = "ok" THEN request_counter + 1 ELSE NULL,
     ops |-> IF o = "nomem" THEN outstanding
             ELSE outstanding \cup {Op(request_counter + 1, "request",
                                       request_counter + 1)}]

request_call(o) ==
    IF o = "nomem"
    THEN [counter |-> request_counter, ctx |-> NULL, ops |-> outstanding]
    ELSE IF o = "err"
    THEN [counter |-> request_counter + 1, ctx |-> NULL, ops |-> outstanding]
    ELSE [counter |-> request_counter + 1, ctx |-> request_counter + 1,
          ops |-> outstanding \cup {Op(request_counter + 1, "request",
                                       request_counter + 1)}]

RequestOutcomes == {"ok", "nomem", "err"}
StartResults == {"OK", "ERR"}

\* The tag each per-call wait loop waits for.
AwaitedTag == [recv_wait |-> RECV_TAG, send_wait |-> SEND_TAG,
               unimpl_wait |-> UNIMPL_TAG]

WaitPcs == {"recv_wait", "send_wait", "unimpl_wait"}

\* call_context_t *pending_ctx = request_call();
SrvStart(o) ==
    /\ spc = "start"
    /\ LET r == request_call(o) IN
          /\ request_counter' = r.counter
          /\ pending_ctx' = r.ctx
          /\ outstanding' = r.ops
    /\ spc' = "poll"
    /\ UNCHANGED <<created, fnVars, expVars, metVars, tel, ctx, g_cq, method, err, arrivals,
                   dropped, handled, sent, respObserved, freed>>

(* An inbound call naming method Methods[m] arrives: gRPC completes one of *)
(* the registered request-call operations, filling in its call details,    *)
(* and posts the completion with that operation's tag.                     *)
ClientCall(m) ==
    /\ spc \in {"poll"} \cup WaitPcs
    /\ arrivals < MaxCalls
    /\ \E op \in outstanding :
          /\ op.kind = "request"
          /\ outstanding' = outstanding \ {op}
          /\ method' = (op.ctx :> m) @@ method
          /\ g_cq' = Append(g_cq, [tag |-> op.tag, kind |-> "call",
                                   ctx |-> op.ctx, success |-> TRUE])
    /\ arrivals' = arrivals + 1
    /\ UNCHANGED <<created, fnVars, expVars, metVars, tel, spc, request_counter, pending_ctx,
                   ctx, err, dropped, handled, sent, respObserved, freed>>

\* gRPC finishes a started batch and posts its completion.
BatchComplete(op, success) ==
    /\ spc # "crashed"
    /\ op \in outstanding
    /\ op.kind # "request"
    /\ outstanding' = outstanding \ {op}
    /\ g_cq' = Append(g_cq, [tag |-> op.tag, kind |-> op.kind, ctx |-> op.ctx,
                             success |-> success])
    /\ UNCHANGED <<created, fnVars, expVars, metVars, tel, spc, request_counter, pending_ctx,
                   ctx, method, err, arrivals, dropped, handled, sent,
                   respObserved, freed>>

\* The contexts whose call-arrived event has been taken and ignored.
DroppedWith(ev) == IF ev.kind = "call" THEN dropped \cup {ev.ctx} ELSE dropped

(* The main loop takes a successful completion whose tag is the pending    *)
(* context's request_id: the context becomes the current one, the next     *)
(* call is requested, and the batch chosen by the method test is started   *)
(* (receive message, tag 1, or initial metadata + UNIMPLEMENTED, tag 3);   *)
(* o is what request_call does, sb what grpc_call_start_batch returns.     *)
SrvPollDispatch(o, sb) ==
    /\ spc = "poll"
    /\ ~g_shutdown
    /\ g_cq # <<>>
    /\ Head(g_cq).success
    /\ pending_ctx # NULL
    /\ Head(g_cq).tag = pending_ctx
    /\ g_cq' = Tail(g_cq)
    /\ ctx' = pending_ctx
    /\ LET r == request_call(o)
           known == strstr(MethodOf(pending_ctx), FetchLegacyData)
           started == IF sb # "OK" THEN {}
                      ELSE IF known THEN {Op(RECV_TAG, "recv", pending_ctx)}
                      ELSE {Op(UNIMPL_TAG, "unimpl", pending_ctx)}
       IN /\ request_counter' = r.counter
          /\ pending_ctx' = r.ctx
          /\ outstanding' = r.ops \cup started
          /\ sent' = IF sb = "OK" /\ ~known
                     THEN sent \cup {[ctx |-> pending_ctx, ops |-> UnimplementedOps]}
                     ELSE sent
          /\ spc' = IF known THEN "recv_wait" ELSE "unimpl_wait"
    /\ err' = sb
    /\ UNCHANGED <<created, fnVars, expVars, metVars, tel, method, arrivals, dropped, handled,
                   respObserved, freed>>

(* The main loop takes an event that is not a successful completion with   *)
(* the pending context's tag, and goes round.  A successful completion     *)
(* taken while pending_ctx is NULL would read pending_ctx->request_id      *)
(* through a null pointer; no action covers it (see PendingReadDefined).   *)
SrvPollIgnore ==
    /\ spc = "poll"
    /\ ~g_shutdown
    /\ g_cq # <<>>
    /\ \/ ~Head(g_cq).success
       \/ pending_ctx # NULL /\ Head(g_cq).tag # pending_ctx
    /\ g_cq' = Tail(g_cq)
    /\ dropped' = DroppedWith(Head(g_cq))
    /\ UNCHANGED <<created, fnVars, expVars, metVars, tel, spc, request_counter, pending_ctx,
                   ctx, outstanding, method, err, arrivals, handled, sent,
                   respObserved, freed>>

\* A per-call wait loop takes an event with another tag and waits on.
SrvWaitDiscard ==
    /\ spc \in WaitPcs
    /\ g_cq # <<>>
    /\ Head(g_cq).tag # AwaitedTag[spc]
    /\ g_cq' = Tail(g_cq)
    /\ dropped' = DroppedWith(Head(g_cq))
    /\ UNCHANGED <<created, fnVars, expVars, metVars, tel, spc, request_counter, pending_ctx,
                   ctx, outstanding, method, err, arrivals, handled, sent,
                   respObserved, freed>>

(* What the handler's log_otlp call before the response (main.c line 271) *)
(* can meet: no log exporter (g_log_exporter NULL), otlp_export_log        *)
(* returning 0, or returning -1 because the batch is full.                 *)
TelemetryResults == {"absent", "accepted", "rejected"}

(* log_otlp returns nothing and the handler keeps no result of             *)
(* otlp_export_log: the response is built from the request alone.          *)
ResponseFor(r) == ResponseOps

(* The wait for the message ends on an event with tag 1, and               *)
(* handle_fetch_legacy_data(ctx) runs up to its wait: it logs the call     *)
(* through log_otlp (r is what that meets), builds the response and        *)
(* starts the batch of initial metadata, message and status under tag 2;   *)
(* sb is what grpc_call_start_batch returns, which is logged.              *)
SrvRecvDone(sb, r) ==
    /\ spc = "recv_wait"
    /\ g_cq # <<>>
    /\ Head(g_cq).tag = RECV_TAG
    /\ g_cq' = Tail(g_cq)
    /\ handled' = handled \cup {ctx}
    /\ tel' = (ctx :> r) @@ tel
    /\ outstanding' = IF sb = "OK"
                      THEN outstanding \cup {Op(SEND_TAG, "send", ctx)}
                      ELSE outstanding
    /\ sent' = IF sb = "OK"
               THEN sent \cup {[ctx |-> ctx, ops |-> ResponseFor(r)]}
               ELSE sent
    /\ err' = sb
    /\ spc' = "send_wait"
    /\ UNCHANGED <<created, fnVars, expVars, metVars, request_counter, pending_ctx, ctx,
                   method, arrivals, dropped, respObserved, freed>>

(* A background export thread's do_export, its 5 s wait having timed out,  *)
(* passes the status_details it never initialised to grpc_slice_unref      *)
(* (ExportCleanupCrash) and the process is killed, whatever the serving    *)
(* thread is doing.  It needs a record the exporter accepted.              *)
SrvExporterTrap ==
    /\ spc \in {"poll"} \cup WaitPcs
    /\ \E c \in DOMAIN tel : tel[c] = "accepted"
    /\ spc' = "crashed"
    /\ UNCHANGED <<created, fnVars, expVars, metVars, tel, request_counter, pending_ctx,
                   ctx, g_cq, outstanding, method, err, arrivals, dropped,
                   handled, sent, respObserved, freed>>

(* The current context's own send batch has completed and its completion   *)
(* is the event taken.                                                     *)
OwnCompletion(ev, kind) == ev.kind = kind /\ ev.ctx = ctx

(* The wait for the send ends on an event with tag 2: the handler records  *)
(* the request's metrics and span (RecordCall, EnqCall) and returns, and   *)
(* run_server frees the context with cleanup_call_context.                 *)
SrvSendDone ==
    /\ spc = "send_wait"
    /\ g_cq # <<>>
    /\ Head(g_cq).tag = SEND_TAG
    /\ g_cq' = Tail(g_cq)
    /\ respObserved' = IF OwnCompletion(Head(g_cq), "send")
                       THEN respObserved \cup {ctx} ELSE respObserved
    /\ dropped' = DroppedWith(Head(g_cq))
    /\ freed' = freed \cup {ctx}
    /\ ctx' = NULL
    /\ err' = "OK"
    /\ spc' = "poll"
    /\ UNCHANGED <<created, fnVars, expVars, metVars, tel, request_counter, pending_ctx,
                   outstanding, method, arrivals, handled, sent>>

(* The wait for the UNIMPLEMENTED status ends on an event with tag 3, and  *)
(* run_server frees the context.                                           *)
SrvUnimplDone ==
    /\ spc = "unimpl_wait"
    /\ g_cq # <<>>
    /\ Head(g_cq).tag = UNIMPL_TAG
    /\ g_cq' = Tail(g_cq)
    /\ respObserved' = IF OwnCompletion(Head(g_cq), "unimpl")
                       THEN respObserved \cup {ctx} ELSE respObserved
    /\ dropped' = DroppedWith(Head(g_cq))
    /\ freed' = freed \cup {ctx}
    /\ ctx' = NULL
    /\ err' = "OK"
    /\ spc' = "poll"
    /\ UNCHANGED <<created, fnVars, expVars, metVars, tel, request_counter, pending_ctx,
                   outstanding, method, arrivals, handled, sent>>

\* The request-call registrations made and not yet completed by a call.
RequestsOutstanding == {op \in outstanding : op.kind = "request"}

\* ---------------------------------------------------- run_server, shutdown
(* g_shutdown becomes set while run_server is in its loop.  main.c itself  *)
(* assigns the flag only after run_server has returned (ShutdownSet); the  *)
(* write here is one made from outside the serving thread.  The loop reads *)
(* the flag at its head only, so a write during a poll or a per-call wait  *)
(* has the effect of one made just before the next test.                   *)
SrvShutdownRequest ==
    /\ spc \in {"poll"} \cup WaitPcs
    /\ ~g_shutdown
    /\ g_shutdown' = TRUE
    /\ UNCHANGED <<created, fnVars, expVars, srvVars, g_request_count,
                   g_total_duration_ms, g_metrics_mutex, snap, recorded, ticks,
                   emitted>>

\* The completion of a request-call registration the server gave up.
Cancelled(op) == [tag |-> op.tag, kind |-> "call", ctx |-> op.ctx,
                  success |-> FALSE]

\* The elements of a set, one after the other.
RECURSIVE SeqOfSet(_)
SeqOfSet(S) ==
    IF S = {} THEN <<>>
    ELSE LET x == CHOOSE y \in S : TRUE IN <<x>> \o SeqOfSet(S \ {x})

(* while (!g_shutdown) ends the loop; cleanup_call_context(pending_ctx),   *)
(* grpc_server_shutdown_and_notify(g_server, g_cq, NULL) and               *)
(* grpc_completion_queue_shutdown(g_cq).  The server completes the         *)
(* registrations still waiting for a call as failed, and owes the queue    *)
(* the notification, whose tag is NULL.                                    *)
SrvLoopExit ==
    /\ spc = "poll"
    /\ g_shutdown
    /\ freed' = IF pending_ctx # NULL THEN freed \cup {pending_ctx} ELSE freed
    /\ g_cq' = g_cq \o SeqOfSet({Cancelled(op) : op \in RequestsOutstanding})
    /\ outstanding' = (outstanding \ RequestsOutstanding)
                          \cup {Op(NULL, "shutdown", NULL)}
    /\ spc' = "drain"
    /\ UNCHANGED <<created, fnVars, expVars, metVars, tel, request_counter, pending_ctx,
                   ctx, method, err, arrivals, dropped, handled, sent,
                   respObserved>>

(* The queue has been shut down and nothing is pending on it any more:     *)
(* gRPC delivers the terminal GRPC_QUEUE_SHUTDOWN event.                   *)
CqShutdownEvent ==
    /\ spc = "drain"
    /\ outstanding = {}
    /\ \A i \in 1 .. Len(g_cq) : g_cq[i].kind # "QUEUE_SHUTDOWN"
    /\ g_cq' = Append(g_cq, [tag |-> NULL, kind |-> "QUEUE_SHUTDOWN",
                             ctx |-> NULL, success |-> FALSE])
    /\ UNCHANGED <<created, fnVars, expVars, metVars, tel, spc, request_counter,
                   pending_ctx, ctx, outstanding, method, err, arrivals, dropped,
                   handled, sent, respObserved, freed>>

\* while (grpc_completion_queue_next(...).type != GRPC_QUEUE_SHUTDOWN);
DrainEnds(ev) == ev.kind = "QUEUE_SHUTDOWN"

(* The drain loop takes an event; on the terminal one it ends and          *)
(* grpc_completion_queue_destroy, grpc_server_destroy, grpc_shutdown run.  *)
SrvDrainEvent ==
    /\ spc = "drain"
    /\ g_cq # <<>>
    /\ g_cq' = Tail(g_cq)
    /\ spc' = IF DrainEnds(Head(g_cq)) THEN "stopped" ELSE "drain"
    /\ UNCHANGED <<created, fnVars, expVars, metVars, tel, request_counter, pending_ctx,
                   ctx, outstanding, method, err, arrivals, dropped, handled,
                   sent, respObserved, freed>>

\* ------------------------------------------------- otlp_export_span's copy
\* span->f ? span->f : ""
OrEmpty(p) == IF p # NullPtr THEN p ELSE PtrTo(<<>>)

(* The copy otlp_export_span stores: calloc'ed, then filled in field by    *)
(* field, each string strdup'ed (a new string of the same characters).     *)
CopySpan(span) ==
    LET copies == span.attribute_count > 0 /\ span.attributes # NullPtr IN
    [trace_id |-> OrEmpty(span.trace_id),
     span_id |-> OrEmpty(span.span_id),
     parent_span_id |->
        IF span.parent_span_id # NullPtr THEN span.parent_span_id
        ELSE NullPtr,
     name |-> OrEmpty(span.name),
     kind |-> span.kind,
     start_time_nanos |-> span.start_time_nanos,
     end_time_nanos |-> span.end_time_nanos,
     status_code |-> span.status_code,
     status_message |-> NullPtr,
     attributes |->
        IF copies
        THEN PtrTo([i \in 1 .. span.attribute_count |->
                       [key |-> Deref(span.attributes)[i].key,
                        string_value |->
                            Deref(span.attributes)[i].string_value]])
        ELSE NullPtr,
     attribute_count |-> IF copies THEN span.attribute_count ELSE 0]

\* -------------------------------------------------------------- hex_to_bytes
(* sscanf(s, "%2x", &val) on a string with no white space, sign or 0x      *)
(* prefix: at most two hex digits, of either case, are read; n is sscanf's *)
(* result.                                                                 *)
Scan2x(s) ==
    LET IsHexDigit(c) == \E v \in 1 .. 16 : hex[v] = c \/ HEX[v] = c
        HexValue(c) == (CHOOSE v \in 1 .. 16 : hex[v] = c \/ HEX[v] = c) - 1
    IN  IF s = <<>> THEN [n |-> -1, val |-> 0]
        ELSE IF ~IsHexDigit(s[1]) THEN [n |-> 0, val |-> 0]
        ELSE IF Len(s) >= 2 /\ IsHexDigit(s[2])
        THEN [n |-> 1, val |-> (16 * HexValue(s[1])) + HexValue(s[2])]
        ELSE [n |-> 1, val |-> HexValue(s[1])]

\* The pair of byte i is read at hex + i instead of hex + (i * 2).
PairOffsetDense(i) == i

\* hex + (i * 2)
PairOffset(i) == i * 2

(* hex_to_bytes from byte i on; bytes is the buffer so far, the caller's   *)
(* malloc'ed memory at the start.                                          *)
RECURSIVE hex_to_bytes_from(_, _, _, _)
hex_to_bytes_from(h, bytes, len, i) ==
    IF i >= len THEN [ret |-> 0, bytes |-> bytes]
    ELSE LET r == Scan2x(SubSeq(h, PairOffset(i) + 1, Len(h))) IN
         IF r.n # 1 THEN [ret |-> -1, bytes |-> bytes]
         ELSE hex_to_bytes_from(h, [bytes EXCEPT ![i + 1] = r.val % 256],
                                len, i + 1)

hex_to_bytes(h, bytes, len) == hex_to_bytes_from(h, bytes, len, 0)

\* The bytes malloc'ed memory may hold.
HeapBytes == {0, 165}

\* ------------------------------------------------------ do_export's request
(* The identifier of n bytes do_export encodes from the string p: the      *)
(* malloc'ed buffer (holding g throughout) as hex_to_bytes leaves it, its  *)
(* result not looked at, or zeros for a missing or short string.           *)
EncodeId(p, n, g) ==
    IF p # NullPtr /\ Len(Deref(p)) >= 2 * n
    THEN hex_to_bytes(Deref(p), [i \in 1 .. n |-> g], n).bytes
    ELSE [i \in 1 .. n |-> 0]

\* The Span message do_export builds for one item of the batch.
EncodeSpan(span, g) ==
    [trace_id |-> EncodeId(span.trace_id, 16, g),
     span_id |-> EncodeId(span.span_id, 8, g),
     parent_span_id |->
        IF span.parent_span_id # NullPtr
           /\ Len(Deref(span.parent_span_id)) >= 16
        THEN EncodeId(span.parent_span_id, 8, g)
        ELSE <<>>,
     name |-> span.name,
     kind |-> span.kind,
     start_time_unix_nano |-> span.start_time_nanos,
     end_time_unix_nano |-> span.end_time_nanos,
     attributes |->
        IF span.attribute_count > 0 /\ span.attributes # NullPtr
        THEN [j \in 1 .. span.attribute_count |->
                 [key |-> Deref(span.attributes)[j].key,
                  value |-> Deref(span.attributes)[j].string_value]]
        ELSE <<>>,
     status |->
        [code |-> span.status_code,
         message |-> IF span.status_message # NullPtr
                     THEN span.status_message ELSE PtrTo(<<>>)]]

\* The resource names the default service instead of the exporter's.
ExportRequestDefaultName(service_name, records) ==
    LET key == <<"s", "e", "r", "v", "i", "c", "e", ".", "n", "a", "m", "e">>
        scope ==
            [name |-> <<"s", "e", "r", "v", "i", "c", "e", "-", "f", "-", "c">>,
             version |-> <<"1", ".", "0", ".", "0">>]
    IN  [resources |->
            <<[resource |->
                  [attributes |->
                      <<[key |-> key,
                         value |-> <<"s", "e", "r", "v", "i", "c", "e", "-", "f">>]>>],
               scopes |-> <<[scope |-> scope, records |-> records]>>]>>]

(* The request do_export and otlp_export_metrics build around the encoded  *)
(* records: one resource with the one attribute service.name, one scope    *)
(* named service-f-c of version 1.0.0, the records.                        *)
ExportRequest(service_name, records) ==
    LET key == <<"s", "e", "r", "v", "i", "c", "e", ".", "n", "a", "m", "e">>
        scope ==
            [name |-> <<"s", "e", "r", "v", "i", "c", "e", "-", "f", "-", "c">>,
             version |-> <<"1", ".", "0", ".", "0">>]
    IN  [resources |->
            <<[resource |->
                  [attributes |-> <<[key |-> key, value |-> service_name]>>],
               scopes |-> <<[scope |-> scope, records |-> records]>>]>>]

\* do_export(exporter, spans, count), count > 0, up to the serialisation.
BuildTraceRequest(service_name, spans, g) ==
    ExportRequest(service_name,
                  [i \in 1 .. Len(spans) |-> EncodeSpan(spans[i], g)])

\* ------------------------------------------------- the attribute-value array
\* The slots do_export allocates: malloc(count * 16 * sizeof(AnyValue*)).
AttrValueCapacity(count) == count * 16

\* The slot of attribute j of item i (both from 0): attr_values[i * 16 + j].
AttrValueSlot(i, j) == (i * 16) + j

(* The slots the encoding loop writes for the batch, item by item and      *)
(* attribute by attribute.                                                 *)
AttrSlotsWritten(items) ==
    [i \in 1 .. Len(items) |->
        [j \in 1 .. (IF items[i].attribute_count > 0
                        /\ items[i].attributes # NullPtr
                     THEN items[i].attribute_count ELSE 0) |->
            AttrValueSlot(i - 1, j - 1)]]

(* Every write stays inside the array and no slot is written twice.  When  *)
(* not, the loop writes past the allocation, or the cleanup frees a slot's *)
(* pointer twice: the call may go on to its end or fault.                  *)
AttrWritesDefined(items) ==
    LET w == AttrSlotsWritten(items) IN
    /\ \A i \in 1 .. Len(w) : \A j \in 1 .. Len(w[i]) :
          w[i][j] < AttrValueCapacity(Len(items))
    /\ \A i, k \in 1 .. Len(w) : \A j \in 1 .. Len(w[i]) :
          \A l \in 1 .. Len(w[k]) : w[i][j] = w[k][l] => (i = k /\ j = l)

\* ------------------------------------------- the log exporter's copy, request
(* The copy otlp_export_log stores: the identifiers strdup'ed when given   *)
(* and NULL otherwise, the body strdup'ed ("" for NULL), the attributes.   *)
CopyLog(record) ==
    LET copies == record.attribute_count > 0 /\ record.attributes # NullPtr IN
    [trace_id |-> record.trace_id,
     span_id |-> record.span_id,
     severity |-> record.severity,
     body |-> OrEmpty(record.body),
     timestamp_nanos |-> record.timestamp_nanos,
     attributes |->
        IF copies
        THEN PtrTo([i \in 1 .. record.attribute_count |->
                       [key |-> Deref(record.attributes)[i].key,
                        string_value |->
                            Deref(record.attributes)[i].string_value]])
        ELSE NullPtr,
     attribute_count |-> IF copies THEN record.attribute_count ELSE 0]

\* A missing or short identifier encoded as the span's own are: n zero bytes.
OptionalIdZeroFilled(p, n, g) == EncodeId(p, n, g)

(* An optional identifier of n bytes as the log exporter's do_export       *)
(* encodes it: converted when the string has 2n characters or more, a      *)
(* field with data NULL and len 0 otherwise.                               *)
OptionalId(p, n, g) ==
    IF p # NullPtr /\ Len(Deref(p)) >= 2 * n
    THEN EncodeId(p, n, g)
    ELSE <<>>

\* The LogRecord message do_export builds for one item of the batch.
EncodeLog(record, g) ==
    LET texts == [n \in {1, 5, 9, 13, 17, 21} |->
                     CASE n = 1 -> <<"T", "R", "A", "C", "E">>
                       [] n = 5 -> <<"D", "E", "B", "U", "G">>
                       [] n = 9 -> <<"I", "N", "F", "O">>
                       [] n = 13 -> <<"W", "A", "R", "N">>
                       [] n = 17 -> <<"E", "R", "R", "O", "R">>
                       [] n = 21 -> <<"F", "A", "T", "A", "L">>]
    IN
    [trace_id |-> OptionalId(record.trace_id, 16, g),
     span_id |-> OptionalId(record.span_id, 8, g),
     time_unix_nano |-> record.timestamp_nanos,
     severity_number |-> record.severity,
     severity_text |->
        IF record.severity \in DOMAIN texts THEN texts[record.severity]
        ELSE <<"U", "N", "S", "P", "E", "C", "I", "F", "I", "E", "D">>,
     body |-> record.body,
     attributes |->
        IF record.attribute_count > 0 /\ record.attributes # NullPtr
        THEN [j \in 1 .. record.attribute_count |->
                 [key |-> Deref(record.attributes)[j].key,
                  value |-> Deref(record.attributes)[j].string_value]]
        ELSE <<>>]

\* ---------------------------------------------------- extract_trace_context
\* The loop of generate_trace_id stops at 16 characters, as generate_span_id's.
generate_trace_id_short(out, len, r) ==
    [i \in 1 .. Len(out) |->
        IF i <= len - 1 /\ i <= 16 THEN hex[(r[i] % 16) + 1]
        ELSE IF i = len THEN NUL ELSE out[i]]

(* generate_trace_id(out, len), r the values rand() returns: up to 32      *)
(* characters of hex[], then out[len - 1] = '\0'.                          *)
generate_trace_id(out, len, r) ==
    [i \in 1 .. Len(out) |->
        IF i <= len - 1 /\ i <= 32 THEN hex[(r[i] % 16) + 1]
        ELSE IF i = len THEN NUL ELSE out[i]]

\* The parent span identifier is taken from offset 35 instead of 36.
CopyTraceparentEarly(bufs, value) ==
    [trace_id |->
        [i \in 1 .. Len(bufs.trace_id) |->
            IF i <= 32 THEN value[3 + i]
            ELSE IF i = 33 THEN NUL ELSE bufs.trace_id[i]],
     parent_span_id |->
        [i \in 1 .. Len(bufs.parent_span_id) |->
            IF i <= 16 THEN value[35 + i]
            ELSE IF i = 17 THEN NUL ELSE bufs.parent_span_id[i]]]

(* strncpy(trace_id, value + 3, 32); trace_id[32] = '\0';                  *)
(* strncpy(parent_span_id, value + 36, 16); parent_span_id[16] = '\0';     *)
(* for a value of 55 characters or more.                                   *)
CopyTraceparent(bufs, value) ==
    [trace_id |->
        [i \in 1 .. Len(bufs.trace_id) |->
            IF i <= 32 THEN value[3 + i]
            ELSE IF i = 33 THEN NUL ELSE bufs.trace_id[i]],
     parent_span_id |->
        [i \in 1 .. Len(bufs.parent_span_id) |->
            IF i <= 16 THEN value[36 + i]
            ELSE IF i = 17 THEN NUL ELSE bufs.parent_span_id[i]]]

(* extract_trace_context on the handler's zeroed buffers trace_id[64] and  *)
(* parent_span_id[32]; generated tells whether generate_trace_id was       *)
(* called.                                                                 *)
extract_trace_context(metadata, trace_id_len, parent_span_len, r) ==
    LET traceparent == <<"t", "r", "a", "c", "e", "p", "a", "r", "e", "n", "t">>
        RECURSIVE loop(_, _)
        loop(bufs, i) ==
            IF i > Len(metadata) THEN bufs
            ELSE IF metadata[i].key = traceparent
                    /\ Len(metadata[i].value) >= 55
            THEN loop(CopyTraceparent(bufs, metadata[i].value), i + 1)
            ELSE loop(bufs, i + 1)
        found == loop([trace_id |-> [i \in 1 .. trace_id_len |-> NUL],
                       parent_span_id |-> [i \in 1 .. parent_span_len |-> NUL]],
                      1)
        generated == found.trace_id[1] = NUL
    IN  [trace_id |->
            IF generated THEN generate_trace_id(found.trace_id, trace_id_len, r)
            ELSE found.trace_id,
         parent_span_id |-> found.parent_span_id,
         generated |-> generated]

\* ------------------------------------------------ otlp_export_metrics' request
(* The Metric otlp_export_metrics builds for one entry of the array: name, *)
(* description and unit, and the data its type and its points select       *)
(* (none for a type without points).                                       *)
EncodeMetric(metric) ==
    LET number(dp) ==
            [time_unix_nano |-> dp.timestamp_nanos,
             value_case |-> IF dp.is_double # 0 THEN "as_double" ELSE "as_int",
             value |-> dp.value]
        points == [j \in 1 .. Len(metric.data_points) |->
                      number(metric.data_points[j])]
    IN  [name |-> metric.name,
         description |-> metric.description,
         unit |-> metric.unit,
         data |->
            IF metric.type = "METRIC_TYPE_COUNTER" /\ Len(metric.data_points) > 0
            THEN [data_case |-> "sum", is_monotonic |-> 1, data_points |-> points]
            ELSE IF metric.type = "METRIC_TYPE_GAUGE"
                    /\ Len(metric.data_points) > 0
            THEN [data_case |-> "gauge", data_points |-> points]
            ELSE IF metric.type = "METRIC_TYPE_HISTOGRAM"
                    /\ Len(metric.histogram_points) > 0
            THEN [data_case |-> "histogram",
                  data_points |-> metric.histogram_points]
            ELSE [data_case |-> "not set"]]

\* otlp_export_metrics(exporter, metrics, count), count > 0: the request.
BuildMetricsRequest(service_name, metrics) ==
    ExportRequest(service_name,
                  [i \in 1 .. Len(metrics) |-> EncodeMetric(metrics[i])])

\* ------------------------------------------------------------ parse_endpoint
(* parse_endpoint(endpoint, &host, &port): skip a leading http:// or       *)
(* https://, split at strchr(ptr, ':') or take the port 4317; always 0.    *)
parse_endpoint(endpoint) ==
    LET strncmp0(str, prefix) ==
            /\ Len(str) >= Len(prefix)
            /\ SubSeq(str, 1, Len(prefix)) = prefix
        http == <<"h", "t", "t", "p", ":", "/", "/">>
        https == <<"h", "t", "t", "p", "s", ":", "/", "/">>
        ptr == IF strncmp0(endpoint, http) THEN SubSeq(endpoint, 8, Len(endpoint))
               ELSE IF strncmp0(endpoint, https)
               THEN SubSeq(endpoint, 9, Len(endpoint))
               ELSE endpoint
        colons == {i \in 1 .. Len(ptr) : ptr[i] = ":"}
        colon == CHOOSE i \in colons : \A j \in colons : i <= j
    IN  IF colons # {}
        THEN [ret |-> 0, host |-> SubSeq(ptr, 1, colon - 1),
              port |-> SubSeq(ptr, colon + 1, Len(ptr))]
        ELSE [ret |-> 0, host |-> ptr, port |-> <<"4", "3", "1", "7">>]

\* ------------------------------------------- functions applied on their own
\* otlp_export_span once per caller's span, into an empty pending batch.
CallExportSpan ==
    /\ fnPc = "ready"
    /\ fnArg.fn = "otlp_export_span"
    /\ fnRes' = [pending |->
                    [i \in 1 .. Len(fnArg.spans) |-> CopySpan(fnArg.spans[i])]]
    /\ fnPc' = "copied"
    /\ UNCHANGED <<created, expVars, metVars, srvVars, fnArg>>

\* The drain's do_export builds the request for the pending batch.
CallDoExport(g) ==
    /\ fnPc = "copied"
    /\ fnRes' = [pending |-> fnRes.pending,
                 request |->
                    BuildTraceRequest(fnArg.service_name, fnRes.pending, g),
                 attr_slots |-> AttrSlotsWritten(fnRes.pending),
                 attr_capacity |-> AttrValueCapacity(Len(fnRes.pending))]
    /\ fnPc' \in IF AttrWritesDefined(fnRes.pending)
                 THEN {"encoded"} ELSE {"encoded", "faulted"}
    /\ UNCHANGED <<created, expVars, metVars, srvVars, fnArg>>

\* otlp_export_log once per caller's record, into an empty pending batch.
CallExportLog ==
    /\ fnPc = "ready"
    /\ fnArg.fn = "otlp_export_log"
    /\ fnRes' = [pending |->
                    [i \in 1 .. Len(fnArg.records) |-> CopyLog(fnArg.records[i])]]
    /\ fnPc' = "queued"
    /\ UNCHANGED <<created, expVars, metVars, srvVars, fnArg>>

\* The log exporter's do_export builds the request for the pending batch.
CallDoExportLog(g) ==
    /\ fnPc = "queued"
    /\ fnRes' = [pending |-> fnRes.pending,
                 request |->
                    ExportRequest(fnArg.service_name,
                                  [i \in 1 .. Len(fnRes.pending) |->
                                      EncodeLog(fnRes.pending[i], g)]),
                 attr_slots |-> AttrSlotsWritten(fnRes.pending),
                 attr_capacity |-> AttrValueCapacity(Len(fnRes.pending))]
    /\ fnPc' \in IF AttrWritesDefined(fnRes.pending)
                 THEN {"encoded"} ELSE {"encoded", "faulted"}
    /\ UNCHANGED <<created, expVars, metVars, srvVars, fnArg>>

\* handle_fetch_legacy_data's call of extract_trace_context.
CallExtractTraceContext(r) ==
    /\ fnPc = "ready"
    /\ fnArg.fn = "extract_trace_context"
    /\ fnRes' = [out |-> extract_trace_context(fnArg.metadata, 64, 32, r),
                 rand |-> r]
    /\ fnPc' = "returned"
    /\ UNCHANGED <<created, expVars, metVars, srvVars, fnArg>>

\* hex_to_bytes(hex, bytes, len) on a malloc'ed buffer of len bytes.
CallHexToBytes(g) ==
    /\ fnPc = "ready"
    /\ fnArg.fn = "hex_to_bytes"
    /\ fnRes' = hex_to_bytes(fnArg.hex, [i \in 1 .. fnArg.len |-> g], fnArg.len)
    /\ fnPc' = "returned"
    /\ UNCHANGED <<created, expVars, metVars, srvVars, fnArg>>

(* otlp_export_metrics up to the serialisation: -1 for an empty array,     *)
(* the request otherwise.                                                  *)
CallExportMetrics ==
    /\ fnPc = "ready"
    /\ fnArg.fn = "otlp_export_metrics"
    /\ IF Len(fnArg.metrics) = 0
       THEN fnRes' = [ret |-> -1] /\ fnPc' = "returned"
       ELSE /\ fnRes' = [request |->
                            BuildMetricsRequest(fnArg.service_name, fnArg.metrics)]
            /\ fnPc' = "encoded"
    /\ UNCHANGED <<created, expVars, metVars, srvVars, fnArg>>

\* otlp_exporter_create's call of parse_endpoint.
CallParseEndpoint ==
    /\ fnPc = "ready"
    /\ fnArg.fn = "parse_endpoint"
    /\ fnRes' = parse_endpoint(fnArg.endpoint)
    /\ fnPc' = "returned"
    /\ UNCHANGED <<created, expVars, metVars, srvVars, fnArg>>

\* --------------------------------------------------------------------- Next
\* The steps of the serving thread, of gRPC's server side and of clients.
SrvNext ==
    \/ \E o \in RequestOutcomes : SrvStart(o)
    \/ \E m \in 1 .. Len(Methods) : ClientCall(m)
    \/ \E op \in outstanding : \E success \in BOOLEAN : BatchComplete(op, success)
    \/ \E o \in RequestOutcomes : \E sb \in StartResults : SrvPollDispatch(o, sb)
    \/ SrvPollIgnore \/ SrvWaitDiscard
    \/ \E sb \in StartResults : \E r \in TelemetryResults : SrvRecvDone(sb, r)
    \/ SrvSendDone \/ SrvUnimplDone
    \/ SrvExporterTrap

(* The steps of the exporters: the enqueuing callers, the background       *)
(* thread, flush and destroy, the export call and the collector.           *)
ExpNext ==
    \/ \E p \in Producers : EnqCall(p) \/ EnqLock(p) \/ EnqFull(p) \/ EnqStore(p)
    \/ BgLoop
    \/ \E t \in DrainThreads :
          \/ DrainLock(t) \/ DrainBegin(t) \/ DrainEmpty(t)
          \/ DrainCopy(t) \/ DrainReset(t) \/ ExportFree(t)
    \/ \E t \in ExportThreads :
          \/ ExportCreateFail(t) \/ ExportStartFail(t) \/ ExportStartOk(t)
          \/ ExportWaitEvent(t) \/ ExportWaitTimeout(t)
          \/ ExportCleanupCrash(t)
    \/ \E c \in inflight :
          \/ CollectorRespond(c, TRUE, "OK")
          \/ CollectorRespond(c, TRUE, "NOT_OK")
          \/ CollectorRespond(c, FALSE, "NOT_OK")
    \/ FlushCall \/ FlushReturn
    \/ DestroyCall \/ DestroyJoin
    \/ DestroyRelease \/ DestroyDrainEvent \/ DestroyShutdownEvent

Init ==
    \E k \in {"span", "log", "metrics", "server"} :
        \E n \in (IF k \in {"span", "log"} THEN PrefillCounts ELSE {0}) :
            InitState(k, n)

Next ==
    \/ ExpNext
    \/ \E d \in Durations : RecordCall(d)
    \/ RecordLock \/ RecordCount \/ RecordTotal
    \/ MetLoop \/ MetWake \/ MetLock \/ MetReadCount \/ MetReadTotal
    \/ MetSkip \/ MetBuild \/ MetExportReturn
    \/ ShutdownSet \/ MetJoin
    \/ SrvNext

Spec == Init /\ [][Next]_vars

(* The pure functions of the exporters and of the handler, each applied    *)
(* to arguments of its own.                                                *)
FnInit == InitState("none", 0)

FnNext ==
    \/ CallExportSpan
    \/ \E g \in HeapBytes : CallDoExport(g)
    \/ CallExportLog
    \/ \E g \in HeapBytes : CallDoExportLog(g)
    \/ \E r \in RandStreams : CallExtractTraceContext(r)
    \/ \E g \in HeapBytes : CallHexToBytes(g)
    \/ CallExportMetrics
    \/ CallParseEndpoint

FnSpec == FnInit /\ [][FnNext]_vars

(* The serving thread on its own, with the scheduling the program has: the *)
(* thread takes its next step whenever it can (an event is on the queue it *)
(* waits on), and gRPC completes every batch that was started.  Nothing    *)
(* obliges a client to call.                                               *)
SrvInit == InitState("server", 0)

SrvFairness ==
    /\ WF_vars(\E o \in RequestOutcomes : SrvStart(o))
    /\ WF_vars(\E o \in RequestOutcomes : \E sb \in StartResults :
                  SrvPollDispatch(o, sb))
    /\ WF_vars(SrvPollIgnore)
    /\ WF_vars(SrvWaitDiscard)
    /\ WF_vars(\E sb \in StartResults : \E r \in TelemetryResults :
                  SrvRecvDone(sb, r))
    /\ WF_vars(SrvSendDone)
    /\ WF_vars(SrvUnimplDone)
    /\ WF_vars(\E op \in outstanding : \E success \in BOOLEAN :
                  BatchComplete(op, success))

ServerSpec == SrvInit /\ [][SrvNext]_vars /\ SrvFairness

(* A span or log exporter on its own, with the scheduling the program has: *)
(* every thread that can take its next step eventually takes it (a lock    *)
(* that is free is acquired, a wait ends with an event or at its 5 s       *)
(* deadline).  Nothing obliges the application to enqueue, flush or        *)
(* destroy, nor the collector to answer.  The log exporter's thread        *)
(* function, enqueue, flush and destroy are those of the span exporter     *)
(* with another batch tag, so the span exporter's behaviours stand for     *)
(* both.                                                                   *)
ExpInit == \E n \in PrefillCounts : InitState("span", n)

\* A step of the enqueue that producer p has entered.
EnqStep(p) == EnqLock(p) \/ EnqFull(p) \/ EnqStore(p)

(* A step of thread t inside a drain-and-export pass (the background       *)
(* thread's loop body, or flush).                                          *)
DrainStep(t) ==
    \/ DrainLock(t) \/ DrainBegin(t) \/ DrainEmpty(t)
    \/ DrainCopy(t) \/ DrainReset(t)
    \/ ExportCreateFail(t) \/ ExportStartFail(t) \/ ExportStartOk(t)
    \/ ExportWaitEvent(t) \/ ExportWaitTimeout(t)
    \/ ExportFree(t)

\* A step of destroy, or flush's return.
MainStep ==
    \/ FlushReturn \/ DestroyJoin \/ DestroyRelease
    \/ DestroyDrainEvent \/ DestroyShutdownEvent

ExpFairness ==
    /\ \A p \in Producers : WF_vars(EnqStep(p))
    /\ WF_vars(BgLoop \/ DrainStep("bg"))
    /\ WF_vars(DrainStep("main") \/ MainStep)

ExporterSpec == ExpInit /\ [][ExpNext]_vars /\ ExpFairness

(* The serving thread when something outside it sets g_shutdown during the *)
(* loop: the shutdown path of run_server is taken step by step, and gRPC   *)
(* completes the notification and delivers the terminal event.             *)
ShutdownNext ==
    \/ SrvNext
    \/ SrvShutdownRequest
    \/ SrvLoopExit
    \/ CqShutdownEvent
    \/ SrvDrainEvent

ShutdownFairness ==
    /\ SrvFairness
    /\ WF_vars(SrvLoopExit)
    /\ WF_vars(CqShutdownEvent)
    /\ WF_vars(SrvDrainEvent)

ShutdownSpec == SrvInit /\ [][ShutdownNext]_vars /\ ShutdownFairness

\* ------------------------------------------------------------ properties
\* The items of every batch handed to do_export so far, in hand-over order.
HandedItems == Flatten([i \in 1 .. Len(handed) |-> handed[i].items])

(* The items a draining thread has copied out of the array and not yet     *)
(* passed to do_export.                                                    *)
InTransit(t) == IF pc[t] \in {"copy", "export"} THEN batch[t] ELSE <<>>

\* b occurs in s as a run of consecutive elements.
IsSegment(b, s) ==
    \E k \in 0 .. (Len(s) - Len(b)) : SubSeq(s, k + 1, k + Len(b)) = b

\* The elements of a sequence.
Range(s) == {s[i] : i \in 1 .. Len(s)}

(* a and b hold the same elements the same number of times, b holding each *)
(* of its elements once (every enqueue call brings an item of its own).    *)
SameItemsOnce(a, b) ==
    /\ Len(a) = Len(b)
    /\ Range(a) = Range(b)
    /\ Cardinality(Range(b)) = Len(b)

\* The process has not been brought down.
Alive == \A t \in Threads : pc[t] # "crashed"

(* The main loop never evaluates pending_ctx->request_id (main.c line 490) *)
(* with pending_ctx NULL: once request_call has failed nothing is          *)
(* registered any more, and no successful completion reaches the loop.     *)
PendingReadDefined ==
    (spc = "poll" /\ g_cq # <<>> /\ Head(g_cq).success) => pending_ctx # NULL

\* The control points of an export call, from its entry to its return.
ExportPcs == {"export", "wait", "free"}

(* C1: no accepted item is lost or duplicated under any interleaving of    *)
(* enqueues with drains by the background thread and by flush: the batches *)
(* handed to do_export, the batch a drain is carrying towards do_export,   *)
(* and the items still pending hold, as a multiset, exactly the items      *)
(* whose enqueue returned 0 (for as long as the process runs).             *)
C1_NoLossNoDup ==
    (IsExporter /\ Alive) =>
        SameItemsOnce(HandedItems \o InTransit("bg") \o InTransit("main")
                      \o PendingItems, accepted)

\* Both draining threads have handed over a batch and items are pending again.
C1_Witness ==
    /\ \E i, j \in 1 .. Len(handed) : handed[i].by = "bg" /\ handed[j].by = "main"
    /\ pending_count > 0
    /\ pc["bg"] = "wait"

(* C2: every batch handed to do_export lists its items in enqueue order,   *)
(* as one run of the accepted items; and the batch a drain passes to       *)
(* do_export is exactly the items that were pending when the drain took    *)
(* the lock (for N <= 64 items enqueued since the last drain: those N, in  *)
(* order, in one export call).                                             *)
C2_FifoWithinBatch ==
    IsExporter =>
        /\ \A i \in 1 .. Len(handed) : IsSegment(handed[i].items, accepted)
        /\ \A t \in DrainThreads :
              pc[t] = "export" => batch[t] = drainSnap[t]

\* A full batch of 64 items has been drained and handed to one export call.
C2_Witness ==
    \E i \in 1 .. Len(handed) :
        /\ Len(handed[i].items) = MAX_BATCH_SIZE
        /\ handed[i].items = SubSeq(accepted, 1, MAX_BATCH_SIZE)

(* C3: an enqueue that finds 64 items pending returns -1 and leaves the    *)
(* array and the count as they were; an enqueue that finds fewer returns 0 *)
(* and the pending items are the former ones followed by the new item.     *)
C3_EnqueueContract ==
    [][\A p \in Producers :
          (pc[p] = "enq_check" /\ pc'[p] = "idle") =>
              IF Len(PendingItems) >= MAX_BATCH_SIZE
              THEN /\ ret'[p] = <<-1>>
                   /\ pending' = pending
                   /\ pending_count' = pending_count
              ELSE /\ ret'[p] = <<0>>
                   /\ PendingItems' = Append(PendingItems, item[p])
                   /\ pending_count' = pending_count + 1]_vars

\* The 64th item was accepted and the 65th has just been rejected.
C3_Witness ==
    /\ Len(accepted) = MAX_BATCH_SIZE
    /\ Len(PendingItems) = MAX_BATCH_SIZE
    /\ rejected # {}
    /\ ret["p1"] = <<-1>>

(* C4: the pending count stays within 0 .. 64 and no store into the        *)
(* pending array used an index beyond its last slot.                       *)
C4_CountWithinCapacity ==
    /\ pending_count \in 0 .. MAX_BATCH_SIZE
    /\ ~overflow

\* An enqueue holds the lock and looks at a full array.
C4_Witness ==
    /\ pending_count = MAX_BATCH_SIZE
    /\ pc["p1"] = "enq_check"

\* The thread is between its lock and its unlock of the exporter's mutex.
InCS(t) == pc[t] \in {"check", "copy", "enq_check"}

\* Some slot below pending_count has been emptied by a drain's copy loop.
PartiallyDrained == \E i \in Slots : i < pending_count /\ pending[i] = NULL

(* C5: a thread examines or changes the pending batch only while it owns   *)
(* the mutex, so at most one thread enqueues or drains at a time; and the  *)
(* array is partially drained only while the draining thread still owns    *)
(* the mutex, so no other thread observes it in that state (the threads    *)
(* of a process that has been brought down observe nothing).               *)
C5_DrainExclusive ==
    (IsExporter /\ Alive) =>
        /\ \A t \in DrainThreads \cup Producers : InCS(t) => mutex = t
        /\ PartiallyDrained =>
              \E t \in DrainThreads : pc[t] = "copy" /\ mutex = t

(* The background thread is midway through its copy loop while an enqueuer *)
(* and flush both wait for the mutex.                                      *)
C5_Witness ==
    /\ PartiallyDrained
    /\ pc["bg"] = "copy"
    /\ pc["p1"] = "enq_lock"
    /\ pc["main"] = "lock"

(* C6: a thread that is inside an export call (do_export or                *)
(* otlp_export_metrics, its wait included) owns neither the exporter's     *)
(* mutex nor the metrics mutex.                                            *)
C6_NoLockDuringExport ==
    \A t \in ExportThreads :
        pc[t] \in ExportPcs => (mutex # t /\ g_metrics_mutex # t)

(* The background thread waits for its export's completion while an        *)
(* enqueuer has taken the mutex.                                           *)
C6_Witness ==
    /\ pc["bg"] = "wait"
    /\ mutex = "p1"
    /\ pc["p1"] = "enq_check"

\* What an export call that took an event from the queue ends with.
EventOutcomes == {"ok", "status_not_ok", "timed_out_or_failed"}

(* C7: once an export has timed out the process goes on as after a non-OK  *)
(* response: no thread is brought down, the items of the timed-out batch   *)
(* are not pending again, and an export call that ends on a completion     *)
(* event ends on the completion of its own call.                           *)
C7_TimeoutLikeNonOk ==
    (IsExporter /\ timedOut # {}) =>
        /\ Alive
        /\ \A i \in timedOut : \A j \in 1 .. Len(handed[i].items) :
              \A k \in 1 .. Len(PendingItems) :
                  PendingItems[k] # handed[i].items[j]
        /\ \A t \in DrainThreads :
              (pc[t] = "free" /\ outcome[t] \in EventOutcomes) => written[t]

(* The background thread's export timed out, its items were freed and the  *)
(* thread is back at the top of its loop.                                  *)
C7_Witness ==
    /\ timedOut # {}
    /\ pc["bg"] = "loop"
    /\ Len(handed) = 1
    /\ handed[1].by = "bg"

\* The steps of destroy(), in the order the claim gives them.
DestroyOrder == <<"stop", "join", "flush", "release", "freed">>

(* C8: destroy() clears the running flag, joins the background thread,     *)
(* performs the final flush and then releases the channel and the queue,   *)
(* in that order; the background thread begins no drain after the join;    *)
(* and from the release on the pending batch is empty and every accepted   *)
(* item has been handed to exactly one export call.                        *)
C8_DestroyOrder ==
    IsExporter =>
        /\ destroySteps = SubSeq(DestroyOrder, 1, Len(destroySteps))
        /\ bgDrainsAfterJoin = 0
        /\ pc["main"] \in {"release", "cq_drain", "destroyed"} =>
              /\ pending_count = 0
              /\ PendingItems = <<>>
              /\ SameItemsOnce(HandedItems, accepted)

(* destroy() has returned after a final flush that exported items which    *)
(* were still pending when the background thread was joined.               *)
C8_Witness ==
    /\ pc["main"] = "destroyed"
    /\ destroySteps = DestroyOrder
    /\ accepted # <<>>
    /\ \E i \in 1 .. Len(handed) : handed[i].by = "main"

(* C9: when flush is about to return it has handed to do_export exactly    *)
(* one batch made of every item that was pending when it took the lock,    *)
(* and none of those items is pending; if nothing was pending it has       *)
(* handed over nothing.                                                    *)
C9_FlushDrainsAll ==
    (IsExporter /\ pc["main"] = "flush_ret") =>
        /\ flushHanded = IF drainSnap["main"] = <<>> THEN <<>>
                         ELSE <<drainSnap["main"]>>
        /\ \A j \in 1 .. Len(drainSnap["main"]) :
              \A k \in 1 .. Len(PendingItems) :
                  PendingItems[k] # drainSnap["main"][j]

(* An application flush (not the one of destroy) is about to return after  *)
(* exporting a full batch while the background thread sleeps.              *)
C9_Witness ==
    /\ pc["main"] = "flush_ret"
    /\ ~inDestroy
    /\ Len(drainSnap["main"]) = MAX_BATCH_SIZE
    /\ flushHanded = <<drainSnap["main"]>>
    /\ pc["bg"] = "loop"

\* The export call of the flush that is about to return has failed.
FlushExportFailed == flushHanded # <<>> /\ outcome["main"] \notin {"none", "ok"}

(* C10: flush returns 0 when its export call succeeded (or there was       *)
(* nothing to export) and -1 when its export call failed.                  *)
C10_FlushReturnCode ==
    [][(pc["main"] = "flush_ret" /\ pc'["main"] \in {"idle", "release"}) =>
          ret'["main"] = IF FlushExportFailed THEN <<-1>> ELSE <<0>>]_vars

\* A flush whose export call timed out is about to return.
C10_Witness ==
    /\ pc["main"] = "flush_ret"
    /\ flushHanded # <<>>
    /\ outcome["main"] = "timeout"

(* C11: otlp_export_metrics returns 0 exactly when its own call's          *)
(* completion was received, successful and with status OK; otherwise -1.   *)
(* Stated where the call is about to return its result.                    *)
C11_MetricsReturnCode ==
    pc["met"] = "free" =>
        (MetricsResult(outcome["met"]) = 0
             <=> (written["met"] /\ outcome["met"] = "ok"))

\* A metrics export is about to return 0 after its own completion came back OK.
C11_Witness ==
    /\ pc["met"] = "free"
    /\ written["met"]
    /\ outcome["met"] = "ok"

(* C12: a tick whose snapshot counts zero requests emits nothing and makes *)
(* no export call; a tick whose snapshot counts R > 0 requests of total    *)
(* duration D makes exactly one export call with one counter point R and   *)
(* one gauge point D / R; and nothing else ever emits.                     *)
C12_TickEmission ==
    [][/\ (pc["met"] = "m_check" /\ pc'["met"] # "m_check" /\ Alive') =>
             IF snap.count = 0
             THEN emitted' = emitted /\ pc'["met"] = "loop"
             ELSE /\ emitted' = Append(emitted, [counter |-> snap.count,
                                                 gauge_num |-> snap.total,
                                                 gauge_den |-> snap.count])
                  /\ pc'["met"] = "export"
       /\ emitted' # emitted => pc["met"] = "m_check"]_vars

(* Two ticks have passed: the first found no request and emitted nothing,  *)
(* the second found two requests of different durations.                   *)
C12_Witness ==
    /\ ticks = 2
    /\ Len(emitted) = 1
    /\ emitted[1].counter = 2
    /\ emitted[1].gauge_num = 11
    /\ emitted[1].gauge_den = 2

(* C13: the step that ends a tick's snapshot critical section leaves the   *)
(* accumulator (request count and cumulative duration) at zero.            *)
C13_AccumulatorReset ==
    [][(pc["met"] = "m_read_total" /\ pc'["met"] = "m_check") =>
          (g_request_count' = 0 /\ g_total_duration_ms' = 0)]_vars

\* A snapshot of a non-empty accumulator has just been taken.
C13_Witness ==
    /\ pc["met"] = "m_check"
    /\ snap.count > 0
    /\ g_request_count > 0

\* The calls of record_request_metrics that have passed their increment.
RequestsCounted ==
    recorded - (IF pc["req"] \in {"rec_lock", "rec_count"} THEN 1 ELSE 0)

CallsQueued == {i \in 1 .. Len(g_cq) : g_cq[i].kind = "call"}

(* C15: at every point where the serving loop waits on the completion      *)
(* queue (the main poll and the three per-call waits) exactly one          *)
(* request_call registration is pending: registered and waiting for a      *)
(* call, or completed by a call whose event the loop has not yet taken.    *)
C15_OneRegistration ==
    spc \in {"poll"} \cup WaitPcs =>
        Cardinality(RequestsOutstanding) + Cardinality(CallsQueued) = 1

(* A call has been processed to its end, the request_call made when it     *)
(* arrived failed, and the loop polls with pending_ctx NULL and nothing     *)
(* registered.                                                             *)
C15_Witness ==
    /\ spc = "poll"
    /\ freed # {}
    /\ pending_ctx = NULL
    /\ RequestsOutstanding = {}
    /\ g_cq = <<>>

\* The request_ids a context can get while at most MaxCalls calls arrive.
CtxIds == 1 .. (MaxCalls + 1)

\* A call has arrived on context c.
Arrived(c) == c \in DOMAIN method

\* A batch was sent on context c and the context has been released.
Answered(c) == c \in freed /\ \E b \in sent : b.ctx = c

(* C16: no inbound call is dropped.  Every call whose call-arrived         *)
(* completion is delivered on the completion queue, also one delivered     *)
(* while the serving thread is in a per-call wait for an earlier call, is  *)
(* eventually dispatched and answered.  (Stated for the runs in which no   *)
(* batch submission fails and the process is not killed; the others are    *)
(* C20's and C21's.)                                                       *)
C16_NoCallDropped ==
    [](err = "OK" /\ spc # "crashed") =>
        \A c \in CtxIds : Arrived(c) ~> Answered(c)

(* The first call has been answered; the second call's arrival was taken   *)
(* and ignored by one of the first call's waits; the loop is back at its   *)
(* poll with nothing queued and nothing outstanding.                      *)
C16_Witness ==
    /\ spc = "poll"
    /\ Answered(1)
    /\ Arrived(2) /\ 2 \in dropped /\ 2 \notin freed
    /\ pending_ctx = 2
    /\ g_cq = <<>>
    /\ outstanding = {}

(* C17: at no time are two operations outstanding on the server's          *)
(* completion queue registered with the same tag, so that a completion     *)
(* accepted for its tag is the awaited operation's.                        *)
C17_TagsDistinct ==
    \A a, b \in outstanding : a.tag = b.tag => a = b

(* The first call's response batch (tag 2) is outstanding together with    *)
(* the registration made for the second call (request_id 2).               *)
C17_Witness ==
    /\ spc = "send_wait"
    /\ Op(SEND_TAG, "send", 1) \in outstanding
    /\ Op(2, "request", 2) \in outstanding

\* The batches sent on context c.
SentOn(c) == {b.ops : b \in {x \in sent : x.ctx = c}}

(* C18: a call whose method name is not the registered method              *)
(* (FetchLegacyData of grpcarch.ServiceF) is answered with initial         *)
(* metadata plus status UNIMPLEMENTED and nothing else, and the business   *)
(* handler is not invoked for it.                                          *)
C18_UnknownMethodUnimplemented ==
    \A c \in DOMAIN method :
        MethodOf(c) # RegisteredMethod =>
            /\ c \notin handled
            /\ SentOn(c) \subseteq {UnimplementedOps}

(* A call naming a method without "FetchLegacyData" in it has been         *)
(* answered with the UNIMPLEMENTED batch and released, unhandled.          *)
C18_Witness ==
    \E c \in DOMAIN method :
        /\ ~strstr(MethodOf(c), FetchLegacyData)
        /\ SentOn(c) = {UnimplementedOps}
        /\ c \in freed
        /\ c \notin handled

(* C19: a dispatched call is sent initial metadata, one response message   *)
(* and the final status in one batch, and its context is freed only after  *)
(* the completion of that call's own response batch has been taken from    *)
(* the completion queue.                                                   *)
C19_FreedAfterOwnResponse ==
    \A c \in handled :
        /\ SentOn(c) \subseteq {ResponseOps}
        /\ c \in freed => c \in respObserved

(* A dispatched call whose response batch was started, completed, and      *)
(* whose completion ended the wait before the context was freed.           *)
C19_Witness ==
    \E c \in handled :
        /\ SentOn(c) = {ResponseOps}
        /\ c \in freed
        /\ c \in respObserved

(* The serving thread waits for the completion of a receive-message or     *)
(* response batch on context c whose submission returned an error.         *)
WaitsOnFailedBatch(c) ==
    /\ ctx = c
    /\ spc \in {"recv_wait", "send_wait"}
    /\ err = "ERR"

(* C20: when grpc_call_start_batch fails for a call's receive-message or   *)
(* response batch, the call is given up, its context is freed and the      *)
(* serving loop goes on polling for later calls; it does not block.        *)
(* (Stated for the runs in which the process is not killed.)               *)
C20_SubmitFailureRecovers ==
    [](spc # "crashed") =>
        \A c \in CtxIds : WaitsOnFailedBatch(c) ~> (c \in freed /\ spc = "poll")

(* The receive-message batch of the first call was refused; the thread is  *)
(* in the wait for its completion, with nothing of that call outstanding   *)
(* and nothing queued.                                                     *)
C20_Witness ==
    /\ WaitsOnFailedBatch(1)
    /\ spc = "recv_wait"
    /\ g_cq = <<>>
    /\ \A op \in outstanding : op.ctx # 1

\* A call has arrived on context c and the context has not been released.
InFlight(c) == Arrived(c) /\ c \notin freed

(* C21: telemetry never changes the business response.  Whatever the       *)
(* handler's telemetry met (no exporter, record accepted, record rejected  *)
(* because the batch is full, export calls failing or timing out), the     *)
(* batch sent to the caller is the same, and no call in flight is cut off  *)
(* by what happens inside an exporter.                                     *)
C21_TelemetryNeverAffectsResponse ==
    /\ \A c \in DOMAIN tel : SentOn(c) \subseteq {ResponseOps}
    /\ spc = "crashed" => \A c \in CtxIds : ~InFlight(c)

(* Two calls were answered with the same response batch, one whose log     *)
(* record was accepted and one whose log record was rejected.              *)
C21_Witness ==
    \E a, b \in DOMAIN tel :
        /\ tel[a] = "accepted"
        /\ tel[b] = "rejected"
        /\ SentOn(a) = {ResponseOps}
        /\ SentOn(b) = {ResponseOps}
        /\ {a, b} \subseteq freed

\* Nothing is left on the server's completion queue or pending on it.
Drained == g_cq = <<>> /\ outstanding = {}

(* C22: shutdown is cooperative.  Once g_shutdown is set while the serving *)
(* loop runs, the loop exits, and the completion queue and the server are  *)
(* destroyed, which happens only after the queue was drained up to its     *)
(* terminal shutdown event.  (Stated for the runs in which the process is  *)
(* not killed.)                                                            *)
C22_ShutdownCooperative ==
    [](spc # "crashed") =>
        /\ g_shutdown ~> (spc = "stopped")
        /\ [](spc = "stopped" => Drained)

(* The flag was set while a call was being served; the call was answered,  *)
(* the loop left, the queue drained and the server destroyed.              *)
C22_Witness ==
    /\ spc = "stopped"
    /\ g_shutdown
    /\ Answered(1)
    /\ Drained

\* The same, for the runs in which every batch submission succeeds.
ShutdownUnlessSubmitFails ==
    [](spc # "crashed" /\ err = "OK") =>
        /\ g_shutdown ~> (spc = "stopped")
        /\ [](spc = "stopped" => Drained)

\* The accepted items not yet handed to an export call.
Unhanded == Range(accepted) \ Range(HandedItems)

(* A thread is in do_export's wait with nothing on the queue and the       *)
(* model's budget of operations used up, so that its deadline is not       *)
(* modelled any further.                                                   *)
WaitBeyondBound ==
    /\ OpsUsed >= MaxOps
    /\ cq = <<>>
    /\ \E t \in DrainThreads : pc[t] = "wait"

(* C23: every item whose enqueue returned 0 is eventually handed to an     *)
(* export call, by the drain of the current tick, by a later drain, or by  *)
(* destroy's flush, for as long as the process runs and its threads are    *)
(* scheduled.  A batch once handed stays handed, so the claim is that at   *)
(* every moment a later one comes at which no accepted item is waiting.    *)
C23_AcceptedEventuallyHanded ==
    []<>(~Alive \/ Unhanded = {} \/ WaitBeyondBound)

(* An item was accepted while the background thread was past the lock of   *)
(* its drain, missed that batch, and was handed over by a later drain of   *)
(* the background thread.                                                  *)
C23_Witness ==
    /\ Len(handed) >= 2
    /\ handed[1].by = "bg"
    /\ handed[2].by = "bg"
    /\ Unhanded = {}
    /\ Len(accepted) >= 2
    /\ flushes = 0
    /\ ~inDestroy

\* The characters p points to; none for a null pointer.
Chars(p) == IF p = NullPtr THEN <<>> ELSE Deref(p)

\* The attributes of a span or item, in array order.
Attributes(span) ==
    IF span.attribute_count > 0 /\ span.attributes # NullPtr
    THEN SubSeq(Deref(span.attributes), 1, span.attribute_count)
    ELSE <<>>

\* The lower-case hex rendering of a byte string.
BytesToHex(bytes) ==
    [k \in 1 .. (2 * Len(bytes)) |->
        IF k % 2 = 1 THEN hex[(bytes[(k + 1) \div 2] \div 16) + 1]
        ELSE hex[(bytes[k \div 2] % 16) + 1]]

\* s is made of lower-case hex digits.
IsLowerHex(s) == \A i \in 1 .. Len(s) : \E v \in 1 .. 16 : hex[v] = s[i]

\* The pending item carries the caller's span, its status message aside.
CopyCarriesButMessage(it, span) ==
    /\ Chars(it.trace_id) = Chars(span.trace_id)
    /\ Chars(it.span_id) = Chars(span.span_id)
    /\ it.parent_span_id = span.parent_span_id
    /\ Chars(it.name) = Chars(span.name)
    /\ it.kind = span.kind
    /\ it.start_time_nanos = span.start_time_nanos
    /\ it.end_time_nanos = span.end_time_nanos
    /\ it.status_code = span.status_code
    /\ Attributes(it) = Attributes(span)

(* The encoded Span carries the caller's span, its status message aside;   *)
(* an identifier is compared when the caller's is of the full length in    *)
(* lower-case hex.                                                         *)
EncodedCarriesButMessage(ps, span) ==
    /\ (Len(Chars(span.trace_id)) = 32 /\ IsLowerHex(Chars(span.trace_id)))
          => BytesToHex(ps.trace_id) = Chars(span.trace_id)
    /\ (Len(Chars(span.span_id)) = 16 /\ IsLowerHex(Chars(span.span_id)))
          => BytesToHex(ps.span_id) = Chars(span.span_id)
    /\ (Len(Chars(span.parent_span_id)) = 16
        /\ IsLowerHex(Chars(span.parent_span_id)))
          => BytesToHex(ps.parent_span_id) = Chars(span.parent_span_id)
    /\ span.parent_span_id = NullPtr => ps.parent_span_id = <<>>
    /\ Chars(ps.name) = Chars(span.name)
    /\ ps.kind = span.kind
    /\ ps.start_time_unix_nano = span.start_time_nanos
    /\ ps.end_time_unix_nano = span.end_time_nanos
    /\ ps.status.code = span.status_code
    /\ Len(ps.attributes) = Len(Attributes(span))
    /\ \A j \in 1 .. Len(ps.attributes) :
          /\ ps.attributes[j].key = Attributes(span)[j].key
          /\ ps.attributes[j].value = Attributes(span)[j].string_value

\* The records of the one scope of the one resource of a request.
RecordsOf(request) == request.resources[1].scopes[1].records

\* The batch of otlp_export_span calls has been copied, or encoded as well.
SpansCopied == fnPc \in {"copied", "encoded"} /\ fnArg.fn = "otlp_export_span"
SpansEncoded == fnPc = "encoded" /\ fnArg.fn = "otlp_export_span"

(* C24: the item otlp_export_span copies into the pending batch, and the   *)
(* Span do_export later encodes from it, carry every field of the caller's *)
(* span unchanged: the identifiers, the name, the kind, the timestamps,    *)
(* the status code, the optional status message and the attributes in      *)
(* insertion order.                                                        *)
C24_ItemCarriesEveryField ==
    /\ SpansCopied =>
          \A i \in 1 .. Len(fnArg.spans) :
              /\ CopyCarriesButMessage(fnRes.pending[i], fnArg.spans[i])
              /\ fnRes.pending[i].status_message = fnArg.spans[i].status_message
    /\ SpansEncoded =>
          \A i \in 1 .. Len(fnArg.spans) :
              /\ EncodedCarriesButMessage(RecordsOf(fnRes.request)[i],
                                          fnArg.spans[i])
              /\ Chars(RecordsOf(fnRes.request)[i].status.message)
                    = Chars(fnArg.spans[i].status_message)

\* Every field but the status message is carried, by the copy and the Span.
ItemCarriesAllButMessage ==
    /\ SpansCopied =>
          \A i \in 1 .. Len(fnArg.spans) :
              CopyCarriesButMessage(fnRes.pending[i], fnArg.spans[i])
    /\ SpansEncoded =>
          \A i \in 1 .. Len(fnArg.spans) :
              EncodedCarriesButMessage(RecordsOf(fnRes.request)[i],
                                       fnArg.spans[i])

\* extract_trace_context has returned.
Extracted == fnPc = "returned" /\ fnArg.fn = "extract_trace_context"

\* The values of 55 characters or more under the key traceparent.
LongTraceparents ==
    {fnArg.metadata[i].value : i \in
        {j \in 1 .. Len(fnArg.metadata) :
            /\ fnArg.metadata[j].key
                  = <<"t", "r", "a", "c", "e", "p", "a", "r", "e", "n", "t">>
            /\ Len(fnArg.metadata[j].value) >= 55}}

(* C25: with no traceparent entry in the metadata, or a value shorter than *)
(* 55 characters, extract_trace_context returns a freshly generated trace  *)
(* identifier of exactly 32 lower-case hex characters (the ones rand()     *)
(* picked) and an empty parent span identifier.                            *)
C25_FreshTraceIdWithoutTraceparent ==
    (Extracted /\ LongTraceparents = {}) =>
        /\ fnRes.out.generated
        /\ Len(CString(fnRes.out.trace_id)) = 32
        /\ IsLowerHex(CString(fnRes.out.trace_id))
        /\ \A i \in 1 .. 32 :
              CString(fnRes.out.trace_id)[i] = hex[(fnRes.rand[i] % 16) + 1]
        /\ CString(fnRes.out.parent_span_id) = <<>>

(* A call that carried a traceparent of 54 characters next to an entry     *)
(* under another key got a generated identifier.                           *)
C25_Witness ==
    /\ Extracted
    /\ LongTraceparents = {}
    /\ Len(fnArg.metadata) = 2
    /\ \E i \in 1 .. 2 : Len(fnArg.metadata[i].value) = 54
    /\ Len(CString(fnRes.out.trace_id)) = 32
    /\ fnRes.out.generated

(* C26: with a traceparent of 55 characters or more, the trace identifier  *)
(* returned is the 32 characters at offsets 3..34 of that value and the    *)
(* parent span identifier the 16 characters at offsets 36..51, whatever    *)
(* the version, the flags and the characters are, and no trace identifier  *)
(* is generated.                                                           *)
C26_TraceparentSubstrings ==
    (Extracted /\ LongTraceparents # {}) =>
        /\ ~fnRes.out.generated
        /\ \E v \in LongTraceparents :
              /\ CString(fnRes.out.trace_id) = SubSeq(v, 4, 35)
              /\ CString(fnRes.out.parent_span_id) = SubSeq(v, 37, 52)

(* A traceparent of an unknown version, with characters that are no hex    *)
(* digits and over-long flags, was taken as it is.                         *)
C26_Witness ==
    /\ Extracted
    /\ \E v \in LongTraceparents :
          /\ v[1] = "z"
          /\ Len(v) > 55
          /\ CString(fnRes.out.trace_id) = SubSeq(v, 4, 35)
          /\ CString(fnRes.out.trace_id)[1] = "G"
          /\ CString(fnRes.out.parent_span_id)[16] = "!"
    /\ ~fnRes.out.generated

\* hex_to_bytes has returned.
HexConverted == fnPc = "returned" /\ fnArg.fn = "hex_to_bytes"

\* The value of a lower-case hex digit.
DigitValue(c) == (CHOOSE v \in 1 .. 16 : hex[v] = c) - 1

(* C27: for a lower-case hex string of 32 characters (16 for a span        *)
(* identifier) hex_to_bytes succeeds, byte i is the value of the digit     *)
(* pair at 2i, 2i + 1, and the bytes rendered as lower-case hex are the    *)
(* string again.                                                           *)
C27_HexRoundTrip ==
    (HexConverted /\ IsLowerHex(fnArg.hex) /\ Len(fnArg.hex) = 2 * fnArg.len) =>
        /\ fnRes.ret = 0
        /\ \A i \in 0 .. (fnArg.len - 1) :
              fnRes.bytes[i + 1] = (16 * DigitValue(fnArg.hex[(2 * i) + 1]))
                                   + DigitValue(fnArg.hex[(2 * i) + 2])
        /\ BytesToHex(fnRes.bytes) = fnArg.hex

\* A trace identifier of 32 mixed lower-case digits made the round trip.
C27_Witness ==
    /\ HexConverted
    /\ fnArg.len = 16
    /\ fnArg.hex = HexString(32, 7)
    /\ fnRes.ret = 0
    /\ fnRes.bytes[1] = 126
    /\ BytesToHex(fnRes.bytes) = fnArg.hex

\* otlp_export_metrics has built its request.
MetricsEncoded == fnPc = "encoded" /\ fnArg.fn = "otlp_export_metrics"

\* The request has one resource, named name, and one scope, service-f-c 1.0.0.
OneResourceOneScope(request, name) ==
    /\ Len(request.resources) = 1
    /\ request.resources[1].resource.attributes
          = <<[key |-> <<"s", "e", "r", "v", "i", "c", "e", ".", "n", "a", "m", "e">>,
               value |-> name]>>
    /\ Len(request.resources[1].scopes) = 1
    /\ request.resources[1].scopes[1].scope.name
          = <<"s", "e", "r", "v", "i", "c", "e", "-", "f", "-", "c">>
    /\ request.resources[1].scopes[1].scope.version
          = <<"1", ".", "0", ".", "0">>

EndpointParsed == fnPc = "returned" /\ fnArg.fn = "parse_endpoint"

\* The endpoint without its leading http:// or https://.
Remainder(e) ==
    IF Len(e) >= 7 /\ SubSeq(e, 1, 7) = <<"h", "t", "t", "p", ":", "/", "/">>
    THEN SubSeq(e, 8, Len(e))
    ELSE IF Len(e) >= 8
            /\ SubSeq(e, 1, 8) = <<"h", "t", "t", "p", "s", ":", "/", "/">>
    THEN SubSeq(e, 9, Len(e))
    ELSE e

\* The positions of the colons of s.
Colons(s) == {i \in 1 .. Len(s) : s[i] = ":"}

(* C29: the endpoint is parsed by stripping a leading http:// or https://  *)
(* and splitting the remainder at its last colon into host and port; with  *)
(* no colon the remainder is the host and the port is 4317.                *)
C29_SplitOnLastColon ==
    EndpointParsed =>
        LET rest == Remainder(fnArg.endpoint) IN
        IF Colons(rest) = {}
        THEN fnRes.host = rest /\ fnRes.port = <<"4", "3", "1", "7">>
        ELSE LET last == CHOOSE i \in Colons(rest) : \A j \in Colons(rest) : j <= i
             IN  /\ fnRes.host = SubSeq(rest, 1, last - 1)
                 /\ fnRes.port = SubSeq(rest, last + 1, Len(rest))

\* The same for the endpoints whose remainder has at most one colon.
SplitOnOnlyColon ==
    (EndpointParsed /\ Cardinality(Colons(Remainder(fnArg.endpoint))) <= 1) =>
        LET rest == Remainder(fnArg.endpoint) IN
        IF Colons(rest) = {}
        THEN fnRes.host = rest /\ fnRes.port = <<"4", "3", "1", "7">>
        ELSE LET only == CHOOSE i \in Colons(rest) : TRUE
             IN  /\ fnRes.host = SubSeq(rest, 1, only - 1)
                 /\ fnRes.port = SubSeq(rest, only + 1, Len(rest))

(* The serving loop takes a call-arrived completion and goes on to the     *)
(* arrived call's first batch.                                             *)
Dispatches == spc = "poll" /\ spc' \in {"recv_wait", "unimpl_wait"}

(* C30: on a call-arrived completion the loop registers the next           *)
(* request_call before it issues any operation on the arrived call: when   *)
(* the loop turns to the arrived call's receive or UNIMPLEMENTED batch,    *)
(* the registration for the next call is in place.                         *)
C30_RearmBeforeProcessing ==
    [][Dispatches =>
          /\ pending_ctx' # NULL
          /\ pending_ctx' # ctx'
          /\ Op(pending_ctx', "request", pending_ctx') \in outstanding']_vars

(* The same for the dispatches whose request_call returned a context: its  *)
(* registration is in place when the arrived call's batch is started.      *)
RearmedWhenRequestCallSucceeds ==
    [][(Dispatches /\ pending_ctx' # NULL) =>
          /\ pending_ctx' = request_counter'
          /\ pending_ctx' # ctx'
          /\ Op(pending_ctx', "request", pending_ctx') \in outstanding']_vars


(***************************************************************************)
(* Call contexts one at a time (run_server, main.c lines 489-544, and      *)
(* cleanup_call_context, lines 439-452).                                   *)
(***************************************************************************)

\* The contexts whose call-arrived event the serving thread has taken.
Taken == dropped \cup handled \cup freed
             \cup (IF spc \in WaitPcs /\ ctx # NULL THEN {ctx} ELSE {})

\* The terminal statuses sent on context c.
StatusesSent(c) == {b \in sent : b.ctx = c}

\* Context c is between its call-arrived event and its cleanup.
InProcessing(c) == spc \in WaitPcs /\ ctx = c /\ c \notin freed

(* C31: the server processes one call fully at a time and every call whose *)
(* call-arrived event it has taken is either the one being processed or    *)
(* has been sent exactly one terminal status and freed; no call is sent    *)
(* two statuses, and none is freed without one.                            *)
C31_OneCallAtATime ==
    /\ Cardinality({c \in CtxIds : InProcessing(c)}) <= 1
    /\ \A c \in CtxIds : Cardinality(StatusesSent(c)) <= 1
    /\ \A c \in Taken :
          \/ InProcessing(c)
          \/ spc = "crashed"
          \/ c \in freed /\ Cardinality(StatusesSent(c)) = 1

\* The part of C31 that holds: one call at a time, never two statuses.
OneInProcessingOneStatus ==
    /\ Cardinality({c \in CtxIds : InProcessing(c)}) <= 1
    /\ \A c \in CtxIds : Cardinality(StatusesSent(c)) <= 1

\* A context has been freed although no status was ever sent on it.
FreedUnanswered == \E c \in freed : StatusesSent(c) = {}

\* Each cleanup frees the current context, which was not freed before.
FreedOnce == [][freed' # freed => ctx \notin freed /\ freed' = freed \cup {ctx}]_vars



(***************************************************************************)
(* A failed receive (run_server, main.c lines 500-518, and                 *)
(* handle_fetch_legacy_data, lines 248-266).                               *)
(***************************************************************************)

(* The serving thread, waiting for the current call's message, takes the   *)
(* completion of that call's receive batch, and the batch has failed.      *)
TakesFailedReceive ==
    /\ spc = "recv_wait"
    /\ g_cq # <<>>
    /\ OwnCompletion(Head(g_cq), "recv")
    /\ ~Head(g_cq).success
    /\ g_cq' = Tail(g_cq)

(* C32: a call whose receive-message operation completes unsuccessfully is *)
(* failed: the business handler is not run for it and no success response  *)
(* is sent on it.                                                          *)
C32_FailedReceiveNotHandled ==
    [][TakesFailedReceive => handled' = handled /\ sent' = sent]_vars


(***************************************************************************)
(* The snapshot pair (record_request_metrics, main.c lines 92-97, and      *)
(* metrics_export_thread, lines 113-117).                                  *)
(***************************************************************************)

\* The totals that n recorded requests can add up to.
RECURSIVE TotalsOf(_)
TotalsOf(n) ==
    IF n = 0 THEN {0}
    ELSE {t + d : t \in TotalsOf(n - 1), d \in Durations}

(* C33: the pair a metrics tick snapshots is consistent: the total         *)
(* duration is the sum of the durations of exactly as many recorded        *)
(* requests as the request count says, in the snapshot and in every pair   *)
(* of data points emitted from one.                                        *)
C33_SnapshotConsistent ==
    created = "metrics" =>
        /\ pc["met"] \in {"m_check", "export"} =>
              /\ snap.total \in TotalsOf(snap.count)
              /\ snap.count <= recorded
        /\ \A i \in 1 .. Len(emitted) :
              /\ emitted[i].gauge_den = emitted[i].counter
              /\ emitted[i].gauge_num \in TotalsOf(emitted[i].counter)

(* A tick has taken its snapshot of one counted request and emitted the    *)
(* pair, a second request having been recorded or being recorded.          *)
C33_Witness ==
    /\ pc["met"] = "export"
    /\ snap.count = 1
    /\ snap.total \in Durations
    /\ recorded = 2
    /\ Len(emitted) >= 1



(***************************************************************************)
(* Absent identifiers (do_export, otlp_exporter.c lines 154-184 and        *)
(* otlp_log_exporter.c lines 153-175).                                     *)
(***************************************************************************)

\* The caller gave the identifier p, of n characters or more.
Given(p, n) == p # NullPtr /\ Len(Deref(p)) >= n

\* The batch of otlp_export_log calls has been copied and encoded.
LogsEncoded == fnPc = "encoded" /\ fnArg.fn = "otlp_export_log"

(* C34: a span's parent_span_id is encoded with length 8 when the caller   *)
(* gave one of 16 characters or more and with length 0 otherwise, a log    *)
(* record's trace_id and span_id with length 16 and 8 when given (32, 16   *)
(* characters or more) and 0 otherwise, and a span's own trace_id and      *)
(* span_id always with length 16 and 8.                                    *)
C34_AbsentIdsZeroLength ==
    /\ SpansEncoded =>
          \A i \in 1 .. Len(fnArg.spans) :
              LET e == RecordsOf(fnRes.request)[i] IN
              /\ Len(e.trace_id) = 16
              /\ Len(e.span_id) = 8
              /\ Len(e.parent_span_id)
                    = IF Given(fnArg.spans[i].parent_span_id, 16) THEN 8 ELSE 0
    /\ LogsEncoded =>
          /\ Len(RecordsOf(fnRes.request)) = Len(fnArg.records)
          /\ \A i \in 1 .. Len(fnArg.records) :
                LET e == RecordsOf(fnRes.request)[i] IN
                /\ Len(e.trace_id)
                      = IF Given(fnArg.records[i].trace_id, 32) THEN 16 ELSE 0
                /\ Len(e.span_id)
                      = IF Given(fnArg.records[i].span_id, 16) THEN 8 ELSE 0

(* A log record with no trace identifier and a span identifier has been    *)
(* encoded, in a batch with a record that has neither.                     *)
C34_Witness ==
    /\ LogsEncoded
    /\ Len(fnArg.records) = 2
    /\ fnArg.records[1].trace_id = NullPtr
    /\ Given(fnArg.records[1].span_id, 16)
    /\ RecordsOf(fnRes.request)[1].trace_id = <<>>
    /\ Len(RecordsOf(fnRes.request)[1].span_id) = 8
    /\ RecordsOf(fnRes.request)[2].span_id = <<>>

\* A span with a parent identifier of 15 characters has been encoded.
ShortParentEncoded ==
    /\ SpansEncoded
    /\ fnArg.spans[1].parent_span_id # NullPtr
    /\ Len(Deref(fnArg.spans[1].parent_span_id)) = 15
    /\ fnArg.spans[1].trace_id = NullPtr



(***************************************************************************)
(* One export call at a time (flush, otlp_log_exporter.c lines 489-526,    *)
(* export_thread_func, lines 361-407, do_export, lines 295-308).           *)
(***************************************************************************)

\* The threads that are inside do_export for the exporter.
Exporting == {t \in DrainThreads : pc[t] \in ExportPcs}

(* C35: at most one export call of the exporter is in flight at a time:    *)
(* the background thread and a caller of flush are never inside do_export  *)
(* together, waiting on the same completion queue with the same tag.       *)
C35_OneExportInFlight == IsExporter => Cardinality(Exporting) <= 1

(* Both threads wait on the exporter's queue, each after starting its own  *)
(* batch under the exporter's one tag.                                     *)
BothWaitOnQueue ==
    /\ IsExporter
    /\ \A t \in DrainThreads : pc[t] = "wait"
    /\ Cardinality(inflight) = 2



(***************************************************************************)
(* Whose completion an export call takes (do_export, otlp_exporter.c lines *)
(* 298-332, otlp_log_exporter.c lines 295-329; otlp_export_metrics,        *)
(* otlp_metrics_exporter.c lines 377-412).                                 *)
(***************************************************************************)

\* Thread t's export call takes an event from the exporter's queue.
TakesEvent(t) ==
    /\ pc[t] = "wait"
    /\ pc'[t] = "free"
    /\ cq # <<>>
    /\ cq' = Tail(cq)

(* C36: the completion event an export call takes from its exporter's      *)
(* completion queue is the completion of that same call, never the late    *)
(* completion of an earlier call that timed out and was abandoned.         *)
C36_OwnCompletionTaken ==
    [][\A t \in Threads : TakesEvent(t) => Head(cq).call = call[t]]_vars

(* The metrics thread, the only thread that exports metrics, has ended an  *)
(* export call on the completion of an earlier call of its own.            *)
LateCompletionTaken ==
    /\ created = "metrics"
    /\ pc["met"] = "free"
    /\ outcome["met"] \in EventOutcomes
    /\ ~written["met"]



(***************************************************************************)
(* Freeing a context gRPC still uses (run_server, main.c lines 550-563,    *)
(* cleanup_call_context, lines 439-452, request_call, lines 410-437).      *)
(***************************************************************************)

\* The operations registered with context c and not yet completed.
RegisteredWith(c) == {op \in outstanding : op.ctx = c}

(* C37: no call context is freed while an operation registered with it is  *)
(* still outstanding on the completion queue, neither a processed call's   *)
(* context nor, on the shutdown path, the pending one.  Stated on every    *)
(* step that frees a context, against the operations outstanding when      *)
(* cleanup_call_context is called.                                         *)
C37_NoFreeWhileRegistered ==
    [][\A c \in freed' \ freed : RegisteredWith(c) = {}]_vars

(* A processed call's context has been freed while its response batch is   *)
(* still outstanding.                                                      *)
FreedWhileSending ==
    \E op \in outstanding : op.kind = "send" /\ op.ctx \in freed

(* The part of C37 that holds: a processed call's context is freed with    *)
(* nothing registered on it whenever the event that ended its last wait    *)
(* was its own batch's completion.                                         *)
FreedAfterOwnCompletion ==
    [][\A c \in freed' \ freed :
          (spc \in WaitPcs /\ Head(g_cq).ctx = c /\ Head(g_cq).kind # "call")
              => RegisteredWith(c) = {}]_vars



(***************************************************************************)
(* Reading the pending context (request_call, main.c lines 410-437, and    *)
(* run_server, lines 478-496 and 550-553).                                 *)
(***************************************************************************)

(* run_server is about to evaluate  ev.tag == pending_ctx->request_id :    *)
(* the main poll returns a successful completion.                          *)
ComparesPendingTag ==
    /\ spc = "poll"
    /\ ~g_shutdown
    /\ g_cq # <<>>
    /\ Head(g_cq).kind # "QUEUE_SHUTDOWN"
    /\ Head(g_cq).success

(* C38: whenever the serving loop compares a completion's tag with the     *)
(* pending context's request_id the pending context is non-NULL, also      *)
(* after a request_call that failed and returned NULL; and the context the *)
(* shutdown path cleans up is never a NULL one.                            *)
C38_PendingExistsWhenRead ==
    /\ ComparesPendingTag => pending_ctx # NULL
    /\ NULL \notin freed
    /\ (spc \in {"drain", "stopped"} /\ pending_ctx # NULL) => pending_ctx \in freed

(* A call has been processed to the end after the request_call made on its *)
(* arrival failed: the loop polls with pending_ctx NULL.                   *)
C38_Witness ==
    /\ spc = "poll"
    /\ pending_ctx = NULL
    /\ request_counter >= 1
    /\ freed # {}
    /\ outstanding = {}



(***************************************************************************)
(* destroy() returns (export_thread_func, otlp_exporter.c lines 365-415;   *)
(* otlp_exporter_destroy, lines 545-574; otlp_log_exporter_destroy,        *)
(* otlp_log_exporter.c lines 528-556).                                     *)
(***************************************************************************)

\* The background thread begins another iteration of its loop.
BgBeginsIteration == pc["bg"] = "loop" /\ pc'["bg"] = "lock"

(* C39: destroy() terminates.  Once destroy has cleared the running flag   *)
(* the background thread begins no further iteration after the one it is   *)
(* in, and nothing stops destroy short of its return: the process is not   *)
(* brought down while destroy joins the thread, flushes and releases.      *)
C39_DestroyTerminates ==
    /\ [][inDestroy => ~BgBeginsIteration]_vars
    /\ [](inDestroy => Alive)

(* destroy was called and the process was brought down by the cleanup of   *)
(* an export call whose wait had timed out: destroy never returns.         *)
DestroyCutShort == inDestroy /\ ~Alive /\ timedOut # {}

(* destroy is in its queue drain and a batch abandoned by a timed-out      *)
(* export call has not completed yet.                                      *)
AwaitsAbandoned == pc["main"] = "cq_drain" /\ inflight # {}

(* The part of C39 that holds: a destroy the process survives returns,     *)
(* every wait of an export call being ended by an event or its deadline    *)
(* and every abandoned batch completing.                                   *)
DestroyReturnsUnlessCrash ==
    []<>(~inDestroy \/ pc["main"] = "destroyed" \/ ~Alive
           \/ WaitBeyondBound \/ AwaitsAbandoned)


\* The part of C39 about the background thread alone.
NoIterationOnceStopped == [][inDestroy => ~BgBeginsIteration]_vars



(***************************************************************************)
(* The attribute-value slots (do_export, otlp_exporter.c lines 145-214 and *)
(* 336-347, otlp_log_exporter.c lines 144-221; otlp_export_span, lines     *)
(* 486-494).                                                               *)
(***************************************************************************)

\* do_export has run its encoding loop over the batch the caller enqueued.
BatchEncoded ==
    /\ fnPc \in {"encoded", "faulted"}
    /\ fnArg.fn \in {"otlp_export_span", "otlp_export_log"}

(* C40: while a batch is encoded, the attribute-value slot written for     *)
(* attribute j of item i lies within the allocated array and differs from  *)
(* the slot of every other pair (i, j) of the batch, whatever the number   *)
(* of attributes of the items enqueue accepted.                            *)
C40_AttrSlotsInRangeDistinct ==
    BatchEncoded =>
        LET w == fnRes.attr_slots IN
        /\ \A i \in 1 .. Len(w) : \A j \in 1 .. Len(w[i]) :
              w[i][j] >= 0 /\ w[i][j] < fnRes.attr_capacity
        /\ \A i, k \in 1 .. Len(w) : \A j \in 1 .. Len(w[i]) :
              \A l \in 1 .. Len(w[k]) :
                  w[i][j] = w[k][l] => (i = k /\ j = l)

(* The part of C40 that holds: for batches whose items have at most 16     *)
(* attributes each the slots are in range and distinct.                    *)
AttrSlotsSoundUpTo16 ==
    (BatchEncoded /\ \A i \in 1 .. Len(fnRes.pending) :
                        fnRes.pending[i].attribute_count <= 16)
        => /\ fnPc = "encoded"
           /\ \A i \in 1 .. Len(fnRes.attr_slots) :
                 \A j \in 1 .. Len(fnRes.attr_slots[i]) :
                     fnRes.attr_slots[i][j] < fnRes.attr_capacity

(* A batch of two full items has been encoded: the second item's 16th      *)
(* attribute is written to the array's last slot.                          *)
LastSlotWritten ==
    /\ BatchEncoded
    /\ Len(fnRes.attr_slots) = 2
    /\ Len(fnRes.attr_slots[2]) = 16
    /\ fnRes.attr_slots[2][16] = fnRes.attr_capacity - 1

\* The first item's 17th attribute and the second item's first share a slot.
SlotWrittenTwice ==
    /\ BatchEncoded
    /\ Len(fnRes.attr_slots) = 2
    /\ Len(fnRes.attr_slots[1]) = 17
    /\ Len(fnRes.attr_slots[2]) >= 1
    /\ fnRes.attr_slots[1][17] = fnRes.attr_slots[2][1]


====
